---- MODULE Spec2Model ----
(***************************************************************************)
(* PhotoShake (photo_shake_v3): the rating engine, the photo life cycle,   *)
(* the tag resolver and the transformation compiler, as a state machine    *)
(* over the relational store and the external image service.               *)
(*                                                                         *)
(* An action is one repository call executed to completion (one request   *)
(* with its own session, committed or rolled back before it returns),      *)
(* except where a request checks and then inserts or commits more than     *)
(* once: create_tag is taken in two steps, its query and its commit, and a *)
(* create_foto or update_foto request with titles to resolve is taken in   *)
(* the steps of get_tags (the query of each title, the insert and commit   *)
(* of each missing one) followed by its own commit, so that the requests   *)
(* of other sessions interleave between the steps.  A user has one         *)
(* create_tag in flight at a time, and one photo request resolves titles   *)
(* at a time.                                                              *)
(* Primary keys are drawn from per-table sequences that never reuse an id.  *)
(***************************************************************************)
EXTENDS Integers, Sequences, FiniteSets, TLC

VARIABLES fotos, ratings, tags, assets, next_id, last, pending, voting,
          resolving,
          comments, avg_rating

vars == <<fotos, ratings, tags, assets, next_id, last, pending, voting,
          resolving,
          comments, avg_rating>>

---------------------------------------------------------------------------
(* Bounds of the model. *)

MaxFotos == 1
MaxRatings == 2
MaxTags == 2
MaxSessions == 2
MaxUploads == 2
MaxComments == 1

---------------------------------------------------------------------------
(* Users and roles (models.py UserRoleEnum, User.role). *)

Users == {1, 2, 3}

Role(u) ==
    CASE u = 1 -> "Administrator"
      [] u = 2 -> "Moderator"
      [] OTHER -> "User"

FotoIds == 1 .. MaxFotos
RateIds == 1 .. MaxRatings
TagIds == 1 .. MaxTags
Rates == {4, 5}

HTTP_423_LOCKED == 423

---------------------------------------------------------------------------
(* Transformation request bodies (TransformBodyModel as transform_metod    *)
(* reads it): five groups, each with its enable flag and parameters.       *)
(* A number that was not sent is None in the code and Absent here; an      *)
(* absent or empty text is "".  The code formats the circle, text and      *)
(* rotate numbers only after testing them, and a zero fails that test as   *)
(* None does, so these are sent present or absent; the resize width is     *)
(* formatted without a test, so it is sent present, zero or absent.        *)

Absent == -1

Sizes == {Absent, 400}
ResizeWidths == {Absent, 0, 400}
Degrees == {Absent, 45}
FontSizes == {Absent, 70}
Texts == {"", "Good"}

(* Python truthiness of a number and of a string. *)
TruthyNum(n) == n # Absent /\ n # 0
TruthyStr(s) == s # ""

(* transform_foto.py 33-65: a number in an f-string. *)
Fmt(n) == IF n = Absent THEN "None" ELSE ToString(n)

(* A group that is switched off is sent with all its parameters filled in; *)
(* a group that is switched on is sent with every combination of present   *)
(* and absent parameters.                                                  *)
CircleGroups ==
    {g \in [use_filter : BOOLEAN, height : Sizes, width : Sizes] :
        g.use_filter \/ (TruthyNum(g.height) /\ TruthyNum(g.width))}
EffectGroups == [use_filter : BOOLEAN, art_audrey : BOOLEAN, art_zorro : BOOLEAN,
                 blur : BOOLEAN, cartoonify : BOOLEAN]
ResizeGroups ==
    {g \in [use_filter : BOOLEAN, crop : BOOLEAN, fill : BOOLEAN,
            height : Sizes, width : ResizeWidths] :
        g.use_filter \/ (TruthyNum(g.height) /\ TruthyNum(g.width))}
TextGroups ==
    {g \in [use_filter : BOOLEAN, font_size : FontSizes, text : Texts] :
        g.use_filter \/ (TruthyNum(g.font_size) /\ TruthyStr(g.text))}
RotateGroups ==
    {g \in [use_filter : BOOLEAN, width : Sizes, degree : Degrees] :
        g.use_filter \/ (TruthyNum(g.width) /\ TruthyNum(g.degree))}

Bodies == [circle : CircleGroups, effect : EffectGroups, resize : ResizeGroups,
           text : TextGroups, rotate : RotateGroups]

(* transform_foto.py 32-35: the circle-crop group. *)
CircleOps(body) ==
    IF body.circle.use_filter /\ TruthyNum(body.circle.height)
                              /\ TruthyNum(body.circle.width)
    THEN << [gravity |-> "face", height |-> Fmt(body.circle.height),
             width |-> Fmt(body.circle.width), crop |-> "thumb"],
            [radius |-> "max"] >>
    ELSE << >>

(* Variant of the effect resolution: the first check that holds wins. *)
EffectName_FirstWins(body) ==
    IF body.effect.art_audrey THEN "art:audrey"
    ELSE IF body.effect.art_zorro THEN "art:zorro"
    ELSE IF body.effect.blur THEN "blur:300"
    ELSE IF body.effect.cartoonify THEN "cartoonify"
    ELSE ""

(* transform_foto.py 38-46: later checks overwrite earlier ones. *)
EffectName(body) ==
    IF body.effect.cartoonify THEN "cartoonify"
    ELSE IF body.effect.blur THEN "blur:300"
    ELSE IF body.effect.art_zorro THEN "art:zorro"
    ELSE IF body.effect.art_audrey THEN "art:audrey"
    ELSE ""

(* transform_foto.py 37-48: the effect group. *)
EffectOps(body) ==
    IF body.effect.use_filter /\ TruthyStr(EffectName(body))
    THEN << [effect |-> EffectName(body)] >>
    ELSE << >>

(* transform_foto.py 51-55: fill overwrites crop. *)
CropMode(body) ==
    IF body.resize.fill THEN "fill"
    ELSE IF body.resize.crop THEN "crop"
    ELSE ""

(* transform_foto.py 50-58: the resize group; the guard reads the height   *)
(* twice and never the width.                                              *)
ResizeOps(body) ==
    IF body.resize.use_filter /\ TruthyNum(body.resize.height)
                              /\ TruthyNum(body.resize.height)
                              /\ TruthyStr(CropMode(body))
    THEN << [gravity |-> "auto", height |-> Fmt(body.resize.height),
             width |-> Fmt(body.resize.width), crop |-> CropMode(body)] >>
    ELSE << >>

(* transform_foto.py 60-62: the text-overlay group. *)
TextOps(body) ==
    IF body.text.use_filter /\ TruthyNum(body.text.font_size)
                            /\ TruthyStr(body.text.text)
    THEN << [color |-> "#FFFF00",
             overlay |-> [font_family |-> "Times",
                          font_size |-> Fmt(body.text.font_size),
                          font_weight |-> "bold", text |-> body.text.text]],
            [flags |-> "layer_apply", gravity |-> "south", y |-> 20] >>
    ELSE << >>

(* Variants of the rotate group: the enable flag not read; the flip left   *)
(* out.                                                                    *)
RotateOps_IgnoreFlag(body) ==
    IF TruthyNum(body.rotate.width) /\ TruthyNum(body.rotate.degree)
    THEN << [width |-> Fmt(body.rotate.width), crop |-> "scale"],
            [angle |-> "vflip"],
            [angle |-> Fmt(body.rotate.degree)] >>
    ELSE << >>

RotateOps_NoFlip(body) ==
    IF body.rotate.use_filter /\ TruthyNum(body.rotate.width)
                              /\ TruthyNum(body.rotate.degree)
    THEN << [width |-> Fmt(body.rotate.width), crop |-> "scale"],
            [angle |-> Fmt(body.rotate.degree)] >>
    ELSE << >>

(* transform_foto.py 64-66: the rotate group. *)
RotateOps(body) ==
    IF body.rotate.use_filter /\ TruthyNum(body.rotate.width)
                              /\ TruthyNum(body.rotate.degree)
    THEN << [width |-> Fmt(body.rotate.width), crop |-> "scale"],
            [angle |-> "vflip"],
            [angle |-> Fmt(body.rotate.degree)] >>
    ELSE << >>

(* transform_foto.py 30-66: the compiled operation list. *)
Compile(body) ==
    CircleOps(body) \o EffectOps(body) \o ResizeOps(body)
                    \o TextOps(body) \o RotateOps(body)

---------------------------------------------------------------------------
(* The external image service: upload, build_url, destroy.                 *)

PublicId(photo_number) == "PhotoShake/" \o ToString(photo_number)

PublicIds == {PublicId(1), PublicId(2)}

(* The URL the service builds: determined by the asset key and the         *)
(* operations, and different for different operations.                     *)
BuildUrl(public_id, transformation) ==
    [public_id |-> public_id, transformation |-> transformation]

Call(fn, public_id, transformation) ==
    [fn |-> fn, public_id |-> public_id, transformation |-> transformation]

ThumbOptions == << [width |-> "250", height |-> "250", crop |-> "fill"] >>

---------------------------------------------------------------------------
(* The outcome of the last request: the operation, what it returned or    *)
(* raised, the image-service calls it made and, for a transformation, the  *)
(* request body.  status "ok" returns the entity ret (a Rating or a Foto,  *)
(* by its id, photo id and user id), "None" returns nothing, any other     *)
(* status is the exception raised.                                         *)

NoneRet == [id |-> 0, foto_id |-> 0, user_id |-> 0]
RatingRet(r) == [id |-> r.id, foto_id |-> r.foto_id, user_id |-> r.user_id]
FotoRet(foto_id, foto) == [id |-> foto_id, foto_id |-> foto_id, user_id |-> foto.user_id]

NoBody ==
    [circle |-> [use_filter |-> FALSE, height |-> Absent, width |-> Absent],
     effect |-> [use_filter |-> FALSE, art_audrey |-> FALSE, art_zorro |-> FALSE,
                 blur |-> FALSE, cartoonify |-> FALSE],
     resize |-> [use_filter |-> FALSE, crop |-> FALSE, fill |-> FALSE,
                 height |-> Absent, width |-> Absent],
     text |-> [use_filter |-> FALSE, font_size |-> Absent, text |-> ""],
     rotate |-> [use_filter |-> FALSE, width |-> Absent, degree |-> Absent]]

Outcome(op, status, ret, calls, body) ==
    [op |-> op, status |-> status, ret |-> ret, calls |-> calls, body |-> body]

(* The HTTP status of a raised rating-policy error (ratings.py 30, 32). *)
StatusCode(status) ==
    IF status \in {"OWN_FOTO", "VOTE_TWICE"} THEN HTTP_423_LOCKED ELSE 0

---------------------------------------------------------------------------
(* Queries. *)

FotoExists(foto_id) == foto_id \in DOMAIN fotos

(* Variant of the existing-vote query: the user column compared with the   *)
(* photo id.                                                               *)
RatingsOf_WrongColumn(foto_id, user) ==
    {r \in ratings : r.foto_id = foto_id /\ r.user_id = foto_id}

(* ratings.py 27, 127: the ratings of a user on a photo. *)
RatingsOf(foto_id, user) ==
    {r \in ratings : r.foto_id = foto_id /\ r.user_id = user}

(* Variant of the rating lookup: the photo column compared with the id. *)
RatingById_ByFoto(rate_id) == {r \in ratings : r.foto_id = rate_id}

(* ratings.py 58, 78: the rating with an id. *)
RatingById(rate_id) == {r \in ratings : r.id = rate_id}

(* Variant of the title lookup: nothing is ever found. *)
TagsTitled_NeverFound(tagset, title) == {}

(* tags.py 18, fotos.py 230: the tags with a title. *)
TagsTitled(tagset, title) == {t \in tagset : t.title = title}

(* The title a user's create_tag is about to insert; none is waiting. *)
NoPending == ""

(* Requests to create_rate in flight: the insert each is about to commit,  *)
(* or none.                                                                *)
Sessions == 1 .. MaxSessions
(* No create_foto or update_foto request is resolving titles. *)
NoRequest ==
    [op |-> "none", user |-> 0, title |-> "", descr |-> "", foto_id |-> 0,
     public_id |-> "", titles |-> << >>, out |-> << >>, missing |-> FALSE,
     fresh |-> {}, expired |-> FALSE, held |-> {}]

NoVote == [foto_id |-> 0, rate |-> 0, user_id |-> 0]

(* models.py 85: the photo of a comment is a nullable column. *)
Null == 0

(* models.py 57-59: func.avg over the ratings of a photo, NULL when there  *)
(* are none; kept as the quotient sum/count in lowest terms.               *)
NoAvg == [num |-> 0, den |-> 0]

RECURSIVE SumRates(_)
SumRates(rs) ==
    IF rs = {} THEN 0
    ELSE LET r == CHOOSE x \in rs : TRUE IN r.rate + SumRates(rs \ {r})

RECURSIVE Gcd(_, _)
Gcd(a, b) == IF b = 0 THEN a ELSE Gcd(b, a % b)

(* Variant of the aggregate: the average of integers truncated to an       *)
(* integer.                                                                *)
Avg_Truncated(rs) ==
    IF rs = {} THEN NoAvg
    ELSE [num |-> SumRates(rs) \div Cardinality(rs), den |-> 1]

Avg(rs) ==
    IF rs = {} THEN NoAvg
    ELSE LET g == Gcd(SumRates(rs), Cardinality(rs))
         IN  [num |-> SumRates(rs) \div g, den |-> Cardinality(rs) \div g]

(* models.py 57-59, the aggregated column: after a flush the column is     *)
(* recomputed for the photos of the Rating objects in the session; a new   *)
(* photo starts with NULL and a deleted photo takes its column with it.    *)
AfterFlush(foto_ids) ==
    avg_rating' = [f \in DOMAIN fotos' |->
                     IF f \in foto_ids
                     THEN Avg({r \in ratings' : r.foto_id = f})
                     ELSE IF f \in DOMAIN avg_rating THEN avg_rating[f]
                     ELSE NoAvg]

---------------------------------------------------------------------------
(* Initial state: an empty store and an empty image service.               *)

Init ==
    /\ fotos = << >>
    /\ ratings = {}
    /\ tags = {}
    /\ assets = [p \in PublicIds |-> 0]
    /\ next_id = [foto |-> 1, rating |-> 1, tag |-> 1, comment |-> 1]
    /\ last = Outcome("init", "None", NoneRet, << >>, NoBody)
    /\ pending = [u \in Users |-> NoPending]
    /\ voting = [s \in Sessions |-> NoVote]
    /\ resolving = NoRequest
    /\ comments = {}
    /\ avg_rating = << >>

---------------------------------------------------------------------------
(* Rating engine (repository/ratings.py).                                  *)

(* Variants of the decision of create_rate: one of its three checks left   *)
(* out.                                                                    *)
CreateRateOutcome_NoDuplicateCheck(foto_id, user) ==
    IF FotoExists(foto_id) /\ fotos[foto_id].user_id = user THEN "OWN_FOTO"
    ELSE IF FotoExists(foto_id) THEN "ok"
    ELSE "None"

CreateRateOutcome_NoSelfCheck(foto_id, user) ==
    IF RatingsOf(foto_id, user) # {} THEN "VOTE_TWICE"
    ELSE IF FotoExists(foto_id) THEN "ok"
    ELSE "None"

CreateRateOutcome_NoExistsCheck(foto_id, user) ==
    IF FotoExists(foto_id) /\ fotos[foto_id].user_id = user THEN "OWN_FOTO"
    ELSE IF RatingsOf(foto_id, user) # {} THEN "VOTE_TWICE"
    ELSE "ok"

(* ratings.py 29-42: the if/elif chain of create_rate over the results of  *)
(* its three queries; with no branch taken the function returns None.      *)
CreateRateDecision(is_self_foto, already_voted, foto_exists) ==
    IF is_self_foto THEN "OWN_FOTO"
    ELSE IF already_voted THEN "VOTE_TWICE"
    ELSE IF foto_exists THEN "ok"
    ELSE "None"

(* ratings.py 25-33: the three queries of create_rate and its decision. *)
CreateRateOutcome(foto_id, user) ==
    LET is_self_foto == FotoExists(foto_id) /\ fotos[foto_id].user_id = user
        already_voted == RatingsOf(foto_id, user) # {}
        foto_exists == FotoExists(foto_id)
    IN  CreateRateDecision(is_self_foto, already_voted, foto_exists)

(* ratings.py 12-42 *)
create_rate(foto_id, rate, user) ==
    LET outcome == CreateRateOutcome(foto_id, user)
        new_rate == [id |-> next_id.rating, foto_id |-> foto_id,
                     rate |-> rate, user_id |-> user]
    IN  /\ IF outcome = "ok"
           THEN /\ ratings' = ratings \cup {new_rate}
                /\ next_id' = [next_id EXCEPT !.rating = @ + 1]
                /\ last' = Outcome("create_rate", "ok",
                                   RatingRet(new_rate), << >>, NoBody)
           ELSE /\ UNCHANGED <<ratings, next_id>>
                /\ last' = Outcome("create_rate", outcome,
                                   NoneRet, << >>, NoBody)
        /\ UNCHANGED <<fotos, tags, assets>>

(* Variant of the edit permission: every actor permitted. *)
EditPermitted_Anyone(user, rate) == TRUE

(* ratings.py 59: evaluated on a rating that exists. *)
EditPermitted(user, rate) ==
    Role(user) \in {"Administrator", "Moderator"} \/ rate.user_id = user

(* ratings.py 45-63.  With no such rating the role test alone decides      *)
(* line 59; for a plain user its second operand reads rate.user_id of      *)
(* None, which raises AttributeError.                                      *)
edit_rate(rate_id, new_rate, user) ==
    LET found == RatingById(rate_id)
    IN  /\ IF found = {}
           THEN /\ UNCHANGED ratings
                /\ last' = Outcome("edit_rate",
                       IF Role(user) \in {"Administrator", "Moderator"}
                       THEN "None" ELSE "AttributeError",
                       NoneRet, << >>, NoBody)
           ELSE LET rate == CHOOSE r \in found : TRUE
                IN  /\ ratings' =
                          IF EditPermitted(user, rate)
                          THEN (ratings \ {rate}) \cup {[rate EXCEPT !.rate = new_rate]}
                          ELSE ratings
                    /\ last' = Outcome("edit_rate", "ok",
                                       RatingRet(rate), << >>, NoBody)
        /\ UNCHANGED <<fotos, tags, assets, next_id>>

(* Variant of delete_rate: the rating is returned but the delete is not    *)
(* committed.                                                              *)
delete_rate_NoDelete(rate_id, user) ==
    LET found == RatingById(rate_id)
    IN  /\ last' = Outcome("delete_rate",
                           IF found = {} THEN "None" ELSE "ok",
                           IF found = {} THEN NoneRet
                           ELSE RatingRet(CHOOSE r \in found : TRUE),
                           << >>, NoBody)
        /\ UNCHANGED <<fotos, ratings, tags, assets, next_id>>

(* ratings.py 66-82 *)
delete_rate(rate_id, user) ==
    LET found == RatingById(rate_id)
    IN  /\ ratings' = ratings \ found
        /\ last' = Outcome("delete_rate",
                           IF found = {} THEN "None" ELSE "ok",
                           IF found = {} THEN NoneRet
                           ELSE RatingRet(CHOOSE r \in found : TRUE),
                           << >>, NoBody)
        /\ UNCHANGED <<fotos, tags, assets, next_id>>

---------------------------------------------------------------------------
(* Tag resolver (repository/fotos.py get_tags).                            *)
(*                                                                         *)
(* get_tags commits inside its loop, once for each title it does not find, *)
(* before the caller's own commit: a create_foto or update_foto request    *)
(* with titles to resolve is several transactions, between which the       *)
(* requests of other sessions commit.  The request in flight is kept in    *)
(* resolving: the titles passed to get_tags (titles), the ids resolved so  *)
(* far (out), whether the next title was queried and not found and now     *)
(* waits for its insert (missing), the resolved tags loaded since this     *)
(* session's last commit (fresh; a commit expires what the session holds), *)
(* whether the session has committed since it loaded its photo (expired)   *)
(* and the tags the photo of an update had when the session's transaction  *)
(* began, at the start of the request or at its last commit (held).        *)

(* fotos.py 58-63: the calls a request has made to the image service when  *)
(* it ends.                                                                *)
RequestCalls(r) ==
    IF r.op = "create_foto"
    THEN << Call("upload", r.public_id, << >>),
            Call("build_url", r.public_id, ThumbOptions) >>
    ELSE << >>

(* What an asset holds besides 0 (no file) and the id of the photo whose   *)
(* upload put its file there (fotos.py 58-59, overwriting): the file of    *)
(* the create_foto request in flight, which has stored no photo yet        *)
(* (Uploading), or the file of a request that ended without storing one    *)
(* (Orphan).                                                               *)
Orphan == -1
Uploading == -2

(* The asset store held once request r has ended: the file that r          *)
(* uploaded, when the asset still holds it, is from then on the file of    *)
(* photo file, or of no photo (Orphan).  No call to the image service is   *)
(* made: an asset overwritten or destroyed since the upload stays as it is.*)
Settled(r, held, file) ==
    IF r.op = "create_foto"
    THEN [held EXCEPT ![r.public_id] = IF @ = Uploading THEN file ELSE @]
    ELSE held

(* Variant of the unique constraint: not enforced. *)
TitleFree_NotEnforced(tagset, title) == TRUE

(* models.py 69: title is UNIQUE, so a commit that would leave two rows    *)
(* with one title fails; tagset is the other rows of the table.            *)
TitleFree(tagset, title) == \A t \in tagset : t.title # title

(* fotos.py 229, 239: the titles that the loop of get_tags has not         *)
(* reached yet; each turn appends one tag to the result.                   *)
Todo(r) == SubSeq(r.titles, Len(r.out) + 1, Len(r.titles))

(* models.py 50: the tags attached to the photo of an update request, as  *)
(* a transaction that begins now reads them; none for an upload or for a   *)
(* photo that is gone.                                                     *)
HeldTags(r) ==
    IF r.op = "update_foto" /\ r.foto_id \in DOMAIN fotos
    THEN fotos[r.foto_id].tags
    ELSE {}

(* fotos.py 229-231: one turn of the loop up to its test.  A tag found is  *)
(* appended to the result (239); a title not found waits for its insert.   *)
get_tags_query ==
    LET tag_title == Head(Todo(resolving))
        found == TagsTitled(tags, tag_title)
    IN  /\ resolving' =
              IF found # {}
              THEN LET tag == CHOOSE t \in found : TRUE
                   IN  [resolving EXCEPT !.out = Append(@, tag.id),
                                         !.fresh = @ \cup {tag.id}]
              ELSE [resolving EXCEPT !.missing = TRUE]
        /\ UNCHANGED <<fotos, ratings, tags, assets, next_id, last>>

(* fotos.py 232-239 with models.py 69: the insert of the missing tag and   *)
(* its commit.  The unique constraint rejects it with IntegrityError when  *)
(* another session has committed the title since the query; the request    *)
(* ends there, with what it committed and uploaded before left in place.   *)
get_tags_commit ==
    LET tag == [id |-> next_id.tag, title |-> Head(Todo(resolving)),
                user_id |-> resolving.user]
    IN  IF TitleFree(tags, tag.title)
        THEN /\ tags' = tags \cup {tag}
             /\ next_id' = [next_id EXCEPT !.tag = @ + 1]
             /\ resolving' = [resolving EXCEPT !.out = Append(@, tag.id),
                                               !.missing = FALSE,
                                               !.fresh = {tag.id},
                                               !.expired = TRUE,
                                               !.held = HeldTags(resolving)]
             /\ UNCHANGED <<fotos, ratings, assets, last>>
        ELSE /\ resolving' = NoRequest
             /\ last' = Outcome(resolving.op, "IntegrityError", NoneRet,
                                RequestCalls(resolving), NoBody)
             /\ assets' = Settled(resolving, assets, Orphan)
             /\ UNCHANGED <<fotos, ratings, tags, next_id>>

Range(seq) == {seq[i] : i \in DOMAIN seq}

(* models.py 33-39: the rows that attach tags to a photo reference the     *)
(* tags.  The resolved tags whose rows another session has deleted.        *)
GoneTags(r) == {i \in Range(r.out) : \A t \in tags : t.id # i}

(* The error of a flush that attaches a deleted tag to a new photo: the    *)
(* reload of a tag that this session's commit expired fails with           *)
(* ObjectDeletedError, the insert of the attaching row for a tag still     *)
(* loaded fails on its foreign key.                                        *)
GoneStatus(r) ==
    IF GoneTags(r) \ r.fresh # {} THEN "ObjectDeletedError" ELSE "IntegrityError"

---------------------------------------------------------------------------
(* Photo life cycle (repository/fotos.py).                                 *)

(* The tags form field of a new photo (routes/fotos.py 23, 40) is absent   *)
(* (None: NoForm) or a list of entries (Form), each entry a                *)
(* comma-separated list of titles, written here as the sequence of titles  *)
(* that split(",") yields; create_foto reads the first entry only.  The    *)
(* route passes None or a list of one entry or more; an empty list reaches *)
(* create_foto only from a direct call.                                    *)
NoForm == [sent |-> FALSE, entries |-> << >>]
Form(entries) == [sent |-> TRUE, entries |-> entries]

FotoTitles == {"cat"}
FotoDescrs == {"pet"}

(* fotos.py 45-56: the number in the public identifier. *)
PhotoNumber(user) ==
    IF \E f \in DOMAIN fotos : fotos[f].user_id = user /\ f = 1 THEN 2 ELSE 1

(* fotos.py 76-87: the Foto that create_foto builds. *)
NewFoto(title, descr, user, public_id, tag_ids) ==
    LET url == BuildUrl(public_id, ThumbOptions)
    IN  [image_url |-> url, transform_url |-> url, title |-> title,
         descr |-> descr, tags |-> tag_ids, user_id |-> user,
         public_id |-> public_id]

(* fotos.py 76-91: the insert of the photo of request r and its commit,   *)
(* held being the asset store at that moment.  Neither the insert nor its  *)
(* failure touches an asset: the file that the request uploaded is the new *)
(* photo's, or no photo's, where the asset still holds it.                 *)
AddFoto(r, held) ==
    IF GoneTags(r) # {}
    THEN /\ last' = Outcome("create_foto", GoneStatus(r), NoneRet,
                            RequestCalls(r), NoBody)
         /\ assets' = Settled(r, held, Orphan)
         /\ UNCHANGED <<fotos, ratings, tags, next_id>>
    ELSE LET foto == NewFoto(r.title, r.descr, r.user, r.public_id, Range(r.out))
         IN  /\ fotos' = fotos @@ (next_id.foto :> foto)
             /\ next_id' = [next_id EXCEPT !.foto = @ + 1]
             /\ assets' = Settled(r, held, next_id.foto)
             /\ last' = Outcome("create_foto", "ok", FotoRet(next_id.foto, foto),
                                RequestCalls(r), NoBody)
             /\ UNCHANGED <<ratings, tags>>

(* fotos.py 17-71, and to the end of the function where no title is to be  *)
(* resolved: in every case the file is uploaded under the public           *)
(* identifier before anything else, over whatever the asset held (58-59).  *)
(* Without the tags field, tags stays None and Foto(..., tags=None) raises *)
(* TypeError; with an empty list the photo is inserted at once; otherwise  *)
(* the titles of the first entry go to get_tags.                           *)
create_foto(title, descr, tag_form, user) ==
    LET public_id == PublicId(PhotoNumber(user))
        r == [NoRequest EXCEPT !.op = "create_foto", !.user = user,
                               !.title = title, !.descr = descr,
                               !.public_id = public_id]
        uploaded == [assets EXCEPT ![public_id] = Uploading]
    IN  IF ~ tag_form.sent
        THEN /\ assets' = Settled(r, uploaded, Orphan)
             /\ last' = Outcome("create_foto", "TypeError", NoneRet,
                                RequestCalls(r), NoBody)
             /\ UNCHANGED <<fotos, ratings, tags, next_id, resolving>>
        ELSE IF tag_form.entries = << >>
        THEN /\ AddFoto(r, uploaded)
             /\ UNCHANGED resolving
        ELSE /\ assets' = uploaded
             /\ resolving' = [r EXCEPT !.titles = Head(tag_form.entries)]
             /\ UNCHANGED <<fotos, ratings, tags, next_id, last>>

(* fotos.py 76-91: the end of a create_foto request whose titles are       *)
(* resolved.                                                               *)
create_foto_commit ==
    /\ AddFoto(resolving, assets)
    /\ resolving' = NoRequest

(* Variant of the permission: a moderator is permitted too, as for the     *)
(* edit of a rating.                                                       *)
FotoPermitted_ModeratorToo(user, foto) ==
    Role(user) \in {"Administrator", "Moderator"} \/ foto.user_id = user

(* fotos.py 279, 311: who may change or remove a photo. *)
FotoPermitted(user, foto) ==
    Role(user) = "Administrator" \/ foto.user_id = user

(* Variant of the assignments of update_foto: the photo passes to the      *)
(* administrator.                                                          *)
AssignFoto_TakesOwnership(foto, title, descr, tag_ids) ==
    [foto EXCEPT !.title = title, !.descr = descr, !.tags = tag_ids,
                 !.user_id = 1]

(* Variant of the assignments of update_foto: the resolved tags are added  *)
(* to the tags the photo has.                                              *)
AssignFoto_KeepsTags(foto, title, descr, tag_ids) ==
    [foto EXCEPT !.title = title, !.descr = descr, !.tags = @ \cup tag_ids]

(* fotos.py 283-287: the assignments of update_foto. *)
AssignFoto(foto, title, descr, tag_ids) ==
    [foto EXCEPT !.title = title, !.descr = descr, !.tags = tag_ids]

(* fotos.py 285 with models.py 33-39, 50: foto.tags is loaded lazily, so   *)
(* the assignment reads the photo's old collection from the database, and  *)
(* the flush deletes the attaching rows of the tags in old and not in      *)
(* r.out, then inserts those of the tags in r.out and not in old.  The     *)
(* reload of an added tag that this session's commit expired and another   *)
(* session removed fails with ObjectDeletedError.  A row to delete that    *)
(* went with its removed tag makes the DELETE match fewer rows than asked: *)
(* StaleDataError where the driver counts the rows of such a statement     *)
(* (counted), nothing elsewhere.  The insert of a row for a removed tag    *)
(* fails on its foreign key.                                               *)
FlushStatus(r, old, counted) ==
    LET added == Range(r.out) \ old
        removed == old \ Range(r.out)
    IN  IF (added \cap GoneTags(r)) \ r.fresh # {} THEN "ObjectDeletedError"
        ELSE IF counted /\ removed \ fotos[r.foto_id].tags # {}
        THEN "StaleDataError"
        ELSE IF added \cap GoneTags(r) # {} THEN "IntegrityError"
        ELSE "ok"

(* fotos.py 283-290: the assignments of request r and their commit.  The   *)
(* photo may have been removed since the request loaded it: the reload of  *)
(* a photo that this session's commit expired fails with                   *)
(* ObjectDeletedError, the UPDATE of a photo still loaded matches no row   *)
(* (StaleDataError).  The old collection that the assignment of the tags   *)
(* reads is what the session's transaction sees of the attaching rows:     *)
(* the rows committed by now where a statement reads the latest commit,    *)
(* the rows held when the transaction began where it reads a snapshot.     *)
(* The repository fixes neither the database nor its driver, so both       *)
(* readings are taken.  The tags that are in old and in r.out are left as  *)
(* they are: a tag among them that another session removed is attached no  *)
(* more, and no statement of the flush touches it.                         *)
SaveFoto(r) ==
    IF ~ FotoExists(r.foto_id)
    THEN /\ last' = Outcome("update_foto",
                            IF r.expired THEN "ObjectDeletedError"
                            ELSE "StaleDataError", NoneRet, << >>, NoBody)
         /\ UNCHANGED <<fotos, ratings, tags, assets, next_id>>
    ELSE \E old \in {fotos[r.foto_id].tags, r.held}, counted \in BOOLEAN :
           IF FlushStatus(r, old, counted) # "ok"
           THEN /\ last' = Outcome("update_foto", FlushStatus(r, old, counted),
                                   NoneRet, << >>, NoBody)
                /\ UNCHANGED <<fotos, ratings, tags, assets, next_id>>
           ELSE /\ fotos' = [fotos EXCEPT ![r.foto_id] =
                                AssignFoto(@, r.title, r.descr,
                                           (@.tags \ (old \ Range(r.out)))
                                              \cup (Range(r.out) \ old))]
                /\ last' = Outcome("update_foto", "ok",
                                   FotoRet(r.foto_id, fotos[r.foto_id]),
                                   << >>, NoBody)
                /\ UNCHANGED <<ratings, tags, assets, next_id>>

(* fotos.py 264-281, and to the end of the function where no title is to   *)
(* be resolved.                                                            *)
update_foto(foto_id, body, user) ==
    LET r == [NoRequest EXCEPT !.op = "update_foto", !.user = user,
                               !.title = body.title, !.descr = body.descr,
                               !.foto_id = foto_id,
                               !.held = IF FotoExists(foto_id)
                                        THEN fotos[foto_id].tags ELSE {}]
    IN  IF ~ FotoExists(foto_id)
        THEN /\ last' = Outcome("update_foto", "None", NoneRet, << >>, NoBody)
             /\ UNCHANGED <<fotos, ratings, tags, assets, next_id, resolving>>
        ELSE IF ~ FotoPermitted(user, fotos[foto_id])
        THEN /\ last' = Outcome("update_foto", "ok",
                                FotoRet(foto_id, fotos[foto_id]), << >>, NoBody)
             /\ UNCHANGED <<fotos, ratings, tags, assets, next_id, resolving>>
        ELSE IF body.tags = << >>
        THEN /\ SaveFoto(r)
             /\ UNCHANGED resolving
        ELSE /\ resolving' = [r EXCEPT !.titles = body.tags]
             /\ UNCHANGED <<fotos, ratings, tags, assets, next_id, last>>

(* fotos.py 283-290: the end of an update_foto request whose titles are    *)
(* resolved.                                                               *)
update_foto_commit ==
    /\ SaveFoto(resolving)
    /\ resolving' = NoRequest

(* fotos.py 122-138: the photo with this id owned by the requester, or     *)
(* nothing.                                                                *)
get_foto_by_id(foto_id, user) ==
    IF FotoExists(foto_id) /\ fotos[foto_id].user_id = user
    THEN FotoRet(foto_id, fotos[foto_id])
    ELSE NoneRet

(* Variant of remove_foto: the asset is destroyed and the photo returned,  *)
(* but the row is not deleted.                                             *)
remove_foto_KeepsRow(foto_id, user) ==
    IF ~ FotoExists(foto_id)
    THEN /\ last' = Outcome("remove_foto", "None", NoneRet, << >>, NoBody)
         /\ UNCHANGED <<fotos, ratings, tags, assets, next_id, comments>>
    ELSE IF ~ FotoPermitted(user, fotos[foto_id])
    THEN /\ last' = Outcome("remove_foto", "ok", FotoRet(foto_id, fotos[foto_id]),
                            << >>, NoBody)
         /\ UNCHANGED <<fotos, ratings, tags, assets, next_id, comments>>
    ELSE LET public_id == fotos[foto_id].public_id
         IN  /\ assets' = [assets EXCEPT ![public_id] = 0]
             /\ last' = Outcome("remove_foto", "ok",
                                FotoRet(foto_id, fotos[foto_id]),
                                << Call("destroy", public_id, << >>) >>, NoBody)
             /\ UNCHANGED <<fotos, ratings, tags, next_id, comments>>

(* fotos.py 293-316 with models.py 57-61, 76-100.  The asset is destroyed  *)
(* first.  Foto.rating and Foto.comments are plain one-to-many             *)
(* relationships, so deleting the photo first blanks foto_id in each of    *)
(* its ratings and comments.  Rating.foto_id is NOT NULL: with a rating    *)
(* the flush raises IntegrityError and nothing is committed.               *)
(* Comment.foto_id is nullable: the comments stay, with no photo.          *)
remove_foto(foto_id, user) ==
    IF ~ FotoExists(foto_id)
    THEN /\ last' = Outcome("remove_foto", "None", NoneRet, << >>, NoBody)
         /\ UNCHANGED <<fotos, ratings, tags, assets, next_id, comments>>
    ELSE IF ~ FotoPermitted(user, fotos[foto_id])
    THEN /\ last' = Outcome("remove_foto", "ok", FotoRet(foto_id, fotos[foto_id]),
                            << >>, NoBody)
         /\ UNCHANGED <<fotos, ratings, tags, assets, next_id, comments>>
    ELSE LET public_id == fotos[foto_id].public_id
             rated == \E r \in ratings : r.foto_id = foto_id
         IN  /\ assets' = [assets EXCEPT ![public_id] = 0]
             /\ fotos' = IF rated THEN fotos
                         ELSE [f \in DOMAIN fotos \ {foto_id} |-> fotos[f]]
             /\ comments' = IF rated THEN comments
                            ELSE {IF c.foto_id = foto_id
                                  THEN [c EXCEPT !.foto_id = Null] ELSE c :
                                  c \in comments}
             /\ last' = Outcome("remove_foto",
                                IF rated THEN "IntegrityError" ELSE "ok",
                                IF rated THEN NoneRet
                                ELSE FotoRet(foto_id, fotos[foto_id]),
                                << Call("destroy", public_id, << >>) >>, NoBody)
             /\ UNCHANGED <<ratings, tags, next_id>>

---------------------------------------------------------------------------
(* Transformation compiler (repository/transform_foto.py).                 *)

(* Variant of the ownership query: an administrator reaches every photo.   *)
OwnedFoto_AdminToo(foto_id, user) ==
    FotoExists(foto_id)
        /\ (fotos[foto_id].user_id = user \/ Role(user) = "Administrator")

(* transform_foto.py 27-29: the photo with this id owned by the requester. *)
OwnedFoto(foto_id, user) ==
    FotoExists(foto_id) /\ fotos[foto_id].user_id = user

(* Variant of transform_metod: the built URL stored as the image URL too.  *)
transform_metod_OverwritesImage(foto_id, body, user) ==
    IF ~ OwnedFoto(foto_id, user)
    THEN /\ last' = Outcome("transform_metod", "None", NoneRet, << >>, body)
         /\ UNCHANGED <<fotos, ratings, tags, assets, next_id>>
    ELSE LET transformation == Compile(body)
             public_id == fotos[foto_id].public_id
             url == BuildUrl(public_id, transformation)
         IN  /\ fotos' = IF transformation # << >>
                         THEN [fotos EXCEPT ![foto_id].transform_url = url,
                                            ![foto_id].image_url = url]
                         ELSE fotos
             /\ last' = Outcome("transform_metod", "ok",
                                FotoRet(foto_id, fotos[foto_id]),
                                IF transformation # << >>
                                THEN << Call("build_url", public_id, transformation) >>
                                ELSE << >>, body)
             /\ UNCHANGED <<ratings, tags, assets, next_id>>

(* transform_foto.py 13-76 *)
transform_metod(foto_id, body, user) ==
    IF ~ OwnedFoto(foto_id, user)
    THEN /\ last' = Outcome("transform_metod", "None", NoneRet, << >>, body)
         /\ UNCHANGED <<fotos, ratings, tags, assets, next_id>>
    ELSE LET transformation == Compile(body)
             public_id == fotos[foto_id].public_id
         IN  /\ fotos' = IF transformation # << >>
                         THEN [fotos EXCEPT ![foto_id].transform_url =
                                              BuildUrl(public_id, transformation)]
                         ELSE fotos
             /\ last' = Outcome("transform_metod", "ok",
                                FotoRet(foto_id, fotos[foto_id]),
                                IF transformation # << >>
                                THEN << Call("build_url", public_id, transformation) >>
                                ELSE << >>, body)
             /\ UNCHANGED <<ratings, tags, assets, next_id>>

(* transform_foto.py 94: the truth value of the stored URL; an empty URL   *)
(* is the URL of no asset with no operations.                              *)
NoUrl == BuildUrl("", << >>)
TruthyUrl(url) == url # NoUrl

(* transform_foto.py 95-98: the QR code of the URL as a PNG image in       *)
(* base64 text, written as its tokens: the PNG signature, which every such *)
(* text starts with, and the payload, which is determined by the URL.      *)
QrEncode(url) == << "iVBORw0KGgo", url >>

(* Variant of the QR rendering: the image URL rendered instead of the      *)
(* transform URL.                                                          *)
ShowQrResult_ImageUrl(foto) ==
    IF TruthyUrl(foto.image_url) THEN QrEncode(foto.image_url) ELSE << >>

(* transform_foto.py 94-100: what show_qr answers for an owned photo; the  *)
(* empty text stands for no answer.                                        *)
ShowQrResult(foto) ==
    IF TruthyUrl(foto.transform_url) THEN QrEncode(foto.transform_url) ELSE << >>

QrRet(encoded_img) == [encoded_img |-> encoded_img]

(* transform_foto.py 79-100 *)
show_qr(foto_id, user) ==
    /\ last' = IF OwnedFoto(foto_id, user) /\ ShowQrResult(fotos[foto_id]) # << >>
               THEN Outcome("show_qr", "ok", QrRet(ShowQrResult(fotos[foto_id])),
                            << >>, NoBody)
               ELSE Outcome("show_qr", "None", NoneRet, << >>, NoBody)
    /\ UNCHANGED <<fotos, ratings, tags, assets, next_id>>

---------------------------------------------------------------------------
(* Tags (repository/tags.py, models.py Tag).                               *)

TagTitles == {"cat", "dog"}

TagRet(tag) == [id |-> tag.id, title |-> tag.title, user_id |-> tag.user_id]

(* tags.py 18-19, 27: the query of create_tag.  A tag found is returned at *)
(* once; otherwise the insert waits for its commit.                        *)
create_tag_query(title, user) ==
    LET found == TagsTitled(tags, title)
    IN  IF found # {}
        THEN /\ last' = Outcome("create_tag", "ok",
                                TagRet(CHOOSE t \in found : TRUE), << >>, NoBody)
             /\ UNCHANGED <<fotos, ratings, tags, assets, next_id, pending>>
        ELSE /\ pending' = [pending EXCEPT ![user] = title]
             /\ UNCHANGED <<fotos, ratings, tags, assets, next_id, last>>

(* tags.py 20-27: the insert of create_tag and its commit, which the       *)
(* unique constraint rejects with IntegrityError.                          *)
create_tag_commit(user) ==
    LET tag == [id |-> next_id.tag, title |-> pending[user], user_id |-> user]
    IN  /\ pending' = [pending EXCEPT ![user] = NoPending]
        /\ IF TitleFree(tags, tag.title)
           THEN /\ tags' = tags \cup {tag}
                /\ next_id' = [next_id EXCEPT !.tag = @ + 1]
                /\ last' = Outcome("create_tag", "ok", TagRet(tag), << >>, NoBody)
           ELSE /\ UNCHANGED <<tags, next_id>>
                /\ last' = Outcome("create_tag", "IntegrityError", NoneRet,
                                   << >>, NoBody)
        /\ UNCHANGED <<fotos, ratings, assets>>

(* tags.py 73-90 *)
update_tag(tag_id, title) ==
    LET found == {t \in tags : t.id = tag_id}
    IN  IF found = {}
        THEN /\ last' = Outcome("update_tag", "None", NoneRet, << >>, NoBody)
             /\ UNCHANGED <<fotos, ratings, tags, assets, next_id, pending>>
        ELSE LET tag == CHOOSE t \in found : TRUE
             IN  /\ IF TitleFree(tags \ {tag}, title)
                    THEN /\ tags' = (tags \ {tag}) \cup {[tag EXCEPT !.title = title]}
                         /\ last' = Outcome("update_tag", "ok",
                                            TagRet([tag EXCEPT !.title = title]),
                                            << >>, NoBody)
                    ELSE /\ UNCHANGED tags
                         /\ last' = Outcome("update_tag", "IntegrityError", NoneRet,
                                            << >>, NoBody)
                 /\ UNCHANGED <<fotos, ratings, assets, next_id, pending>>

(* tags.py 93-105 with models.py 33-39, 50: the rows that attach the tag   *)
(* to photos go with it.                                                   *)
remove_tag(tag_id) ==
    LET found == {t \in tags : t.id = tag_id}
    IN  /\ tags' = tags \ found
        /\ fotos' = [f \in DOMAIN fotos |->
                        [fotos[f] EXCEPT !.tags = @ \ {tag_id}]]
        /\ last' = Outcome("remove_tag",
                           IF found = {} THEN "None" ELSE "ok",
                           IF found = {} THEN NoneRet
                           ELSE TagRet(CHOOSE t \in found : TRUE), << >>, NoBody)
        /\ UNCHANGED <<ratings, assets, next_id, pending>>

---------------------------------------------------------------------------
(* Spec: the rating engine over the photo life cycle.  Photos are         *)
(* uploaded with one title in the tags field and removed; primary keys     *)
(* stop at the bounds.  The steps of an upload read and write the tags,    *)
(* the asset and the photo row they create and nothing that a rating       *)
(* operation reads, so they are taken here with no other request in        *)
(* between.                                                                *)

CatForm == Form(<< <<"cat">> >>)
PlainForms == {CatForm}

CreateRate ==
    \E f \in FotoIds, r \in Rates, u \in Users :
        /\ resolving = NoRequest
        /\ CreateRateOutcome(f, u) = "ok" => next_id.rating <= MaxRatings
        /\ create_rate(f, r, u)
        /\ AfterFlush(IF CreateRateOutcome(f, u) = "ok" THEN {f} ELSE {})
        /\ UNCHANGED <<resolving, pending, voting, comments>>
EditRate ==
    \E i \in RateIds, r \in Rates, u \in Users :
        /\ resolving = NoRequest
        /\ edit_rate(i, r, u)
        /\ AfterFlush({x.foto_id : x \in {y \in RatingById(i) : EditPermitted(u, y)}})
        /\ UNCHANGED <<resolving, pending, voting, comments>>
DeleteRate ==
    \E i \in RateIds, u \in Users :
        /\ resolving = NoRequest
        /\ delete_rate(i, u)
        /\ AfterFlush({x.foto_id : x \in RatingById(i)})
        /\ UNCHANGED <<resolving, pending, voting, comments>>
CreateFoto ==
    /\ resolving = NoRequest
    /\ next_id.foto <= MaxFotos
    /\ \E t \in FotoTitles, d \in FotoDescrs, g \in PlainForms, u \in Users :
           create_foto(t, d, g, u)
    /\ AfterFlush({})
    /\ UNCHANGED <<pending, voting, comments>>
RemoveFoto ==
    /\ resolving = NoRequest
    /\ \E f \in FotoIds, u \in Users : remove_foto(f, u)
    /\ AfterFlush({})
    /\ UNCHANGED <<resolving, pending, voting>>

(* The steps of the photo request in flight, taken in every specification  *)
(* between the requests of the other sessions.  Primary keys stop at the   *)
(* bounds.                                                                 *)
GetTagsQuery ==
    /\ resolving # NoRequest
    /\ Todo(resolving) # << >>
    /\ ~ resolving.missing
    /\ get_tags_query
    /\ UNCHANGED <<pending, voting, comments, avg_rating>>

GetTagsCommit ==
    /\ resolving.missing
    /\ TitleFree(tags, Head(Todo(resolving))) => next_id.tag <= MaxTags
    /\ get_tags_commit
    /\ UNCHANGED <<pending, voting, comments, avg_rating>>

CreateFotoCommit ==
    /\ resolving.op = "create_foto"
    /\ Todo(resolving) = << >>
    /\ create_foto_commit
    /\ AfterFlush({})
    /\ UNCHANGED <<pending, voting, comments>>

UpdateFotoCommit ==
    /\ resolving.op = "update_foto"
    /\ Todo(resolving) = << >>
    /\ update_foto_commit
    /\ AfterFlush({})
    /\ UNCHANGED <<pending, voting, comments>>

Next ==
    \/ GetTagsQuery
    \/ GetTagsCommit
    \/ CreateFotoCommit
    \/ CreateRate
    \/ EditRate
    \/ DeleteRate
    \/ CreateFoto
    \/ RemoveFoto

Spec == Init /\ [][Next]_vars

---------------------------------------------------------------------------
(* SpecCompile: the transformation compiler on every request body.  One    *)
(* user uploads photos with one tag; before or after the uploads any user  *)
(* sends one transformation request for any photo id, and QR requests for  *)
(* any photo id, while no upload is resolving its title.                   *)

Uploader == CHOOSE u \in Users : Role(u) = "User"

CreateFotoC ==
    /\ resolving = NoRequest
    /\ next_id.foto <= MaxFotos
    /\ last.op \in {"init", "create_foto"}
    /\ \E t \in FotoTitles, d \in FotoDescrs : create_foto(t, d, CatForm, Uploader)
    /\ AfterFlush({})
    /\ UNCHANGED <<pending, voting, comments>>

TransformMetodC ==
    /\ resolving = NoRequest
    /\ last.op \in {"init", "create_foto"}
    /\ \E f \in FotoIds, b \in Bodies, u \in Users : transform_metod(f, b, u)
    /\ UNCHANGED <<resolving, pending, voting, comments, avg_rating>>

ShowQrC ==
    /\ resolving = NoRequest
    /\ last.op # "show_qr"
    /\ \E f \in FotoIds, u \in Users : show_qr(f, u)
    /\ UNCHANGED <<resolving, pending, voting, comments, avg_rating>>

NextCompile ==
    \/ GetTagsQuery
    \/ GetTagsCommit
    \/ CreateFotoCommit
    \/ CreateFotoC
    \/ TransformMetodC
    \/ ShowQrC

SpecCompile == Init /\ [][NextCompile]_vars

---------------------------------------------------------------------------
(* SpecTags: the tag table under the create_tag requests of the users,     *)
(* update_tag, remove_tag and the tag resolver of create_foto and          *)
(* update_foto, whose queries and commits interleave with them.  One user  *)
(* uploads and updates photos; the tags form field holds one entry.        *)

TagForms == {Form(<< <<"dog", "cat">> >>)}

(* The users who send create_tag requests. *)
TagMakers == Users \ {Uploader}

CreateTagQuery ==
    \E t \in TagTitles, u \in TagMakers :
        /\ pending[u] = NoPending
        /\ create_tag_query(t, u)
        /\ UNCHANGED <<resolving, voting, comments, avg_rating>>

CreateTagCommit ==
    \E u \in TagMakers :
        /\ pending[u] # NoPending
        /\ TitleFree(tags, pending[u]) => next_id.tag <= MaxTags
        /\ create_tag_commit(u)
        /\ UNCHANGED <<resolving, voting, comments, avg_rating>>

UpdateTag ==
    /\ \E i \in TagIds, t \in TagTitles : update_tag(i, t)
    /\ UNCHANGED <<resolving, voting, comments, avg_rating>>

RemoveTag ==
    /\ \E i \in TagIds : remove_tag(i)
    /\ UNCHANGED <<resolving, voting, comments, avg_rating>>

CreateFotoT ==
    /\ resolving = NoRequest
    /\ next_id.foto <= MaxFotos
    /\ \E t \in FotoTitles, d \in FotoDescrs, g \in TagForms :
          /\ create_foto(t, d, g, Uploader)
    /\ AfterFlush({})
    /\ UNCHANGED <<pending, voting, comments>>

(* The uploader resubmits a photo with one title to resolve. *)
TagUpdates == [title : FotoTitles, descr : FotoDescrs, tags : { <<"dog">> }]

UpdateFotoT ==
    /\ resolving = NoRequest
    /\ \E f \in FotoIds, b \in TagUpdates : update_foto(f, b, Uploader)
    /\ AfterFlush({})
    /\ UNCHANGED <<pending, voting, comments>>

NextTags ==
    \/ GetTagsQuery
    \/ GetTagsCommit
    \/ CreateFotoCommit
    \/ UpdateFotoCommit
    \/ UpdateFotoT
    \/ CreateTagQuery
    \/ CreateTagCommit
    \/ UpdateTag
    \/ RemoveTag
    \/ CreateFotoT

SpecTags == Init /\ [][NextTags]_vars

---------------------------------------------------------------------------
(* SpecRace: create_rate as the two steps a database sees, its queries     *)
(* and, when they let the vote through, the commit of its insert, with     *)
(* the requests of several sessions interleaved.  One user uploads and     *)
(* removes photos; the steps of an upload touch no rating and are taken    *)
(* with no other request in between.                                       *)

(* ratings.py 25-32: the three queries of create_rate and its decision; a  *)
(* vote let through waits in session s for its commit.                     *)
create_rate_query(s, foto_id, rate, user) ==
    LET outcome == CreateRateOutcome(foto_id, user)
    IN  IF outcome = "ok"
        THEN /\ voting' = [voting EXCEPT ![s] = [foto_id |-> foto_id,
                                                 rate |-> rate,
                                                 user_id |-> user]]
             /\ UNCHANGED <<fotos, ratings, tags, assets, next_id, last>>
        ELSE /\ last' = Outcome("create_rate", outcome, NoneRet, << >>, NoBody)
             /\ UNCHANGED <<fotos, ratings, tags, assets, next_id, voting>>

(* Variant of the commit: the ratings table has a unique constraint on     *)
(* the pair (foto_id, user_id).                                            *)
create_rate_commit_UniquePair(s) ==
    LET new_rate == [id |-> next_id.rating, foto_id |-> voting[s].foto_id,
                     rate |-> voting[s].rate, user_id |-> voting[s].user_id]
    IN  /\ voting' = [voting EXCEPT ![s] = NoVote]
        /\ IF /\ FotoExists(new_rate.foto_id)
              /\ RatingsOf(new_rate.foto_id, new_rate.user_id) = {}
           THEN /\ ratings' = ratings \cup {new_rate}
                /\ next_id' = [next_id EXCEPT !.rating = @ + 1]
                /\ last' = Outcome("create_rate", "ok",
                                   RatingRet(new_rate), << >>, NoBody)
           ELSE /\ UNCHANGED <<ratings, next_id>>
                /\ last' = Outcome("create_rate", "IntegrityError", NoneRet,
                                   << >>, NoBody)
        /\ UNCHANGED <<fotos, tags, assets>>

(* ratings.py 33-42 with models.py 91-100: the insert of create_rate and   *)
(* its commit.  The table has a foreign key to the photo and no unique     *)
(* constraint on the pair (foto_id, user_id).                              *)
create_rate_commit(s) ==
    LET new_rate == [id |-> next_id.rating, foto_id |-> voting[s].foto_id,
                     rate |-> voting[s].rate, user_id |-> voting[s].user_id]
    IN  /\ voting' = [voting EXCEPT ![s] = NoVote]
        /\ IF FotoExists(new_rate.foto_id)
           THEN /\ ratings' = ratings \cup {new_rate}
                /\ next_id' = [next_id EXCEPT !.rating = @ + 1]
                /\ last' = Outcome("create_rate", "ok",
                                   RatingRet(new_rate), << >>, NoBody)
           ELSE /\ UNCHANGED <<ratings, next_id>>
                /\ last' = Outcome("create_rate", "IntegrityError", NoneRet,
                                   << >>, NoBody)
        /\ UNCHANGED <<fotos, tags, assets>>

CreateFotoR ==
    /\ resolving = NoRequest
    /\ next_id.foto <= MaxFotos
    /\ \E t \in FotoTitles, d \in FotoDescrs : create_foto(t, d, CatForm, Uploader)
    /\ AfterFlush({})
    /\ UNCHANGED <<pending, voting, comments>>

RemoveFotoR ==
    /\ resolving = NoRequest
    /\ \E f \in FotoIds : remove_foto(f, Uploader)
    /\ AfterFlush({})
    /\ UNCHANGED <<resolving, pending, voting>>

(* The votes of SpecRace all carry the same rate. *)
RaceRates == {CHOOSE r \in Rates : TRUE}

CreateRateQuery ==
    \E s \in Sessions, f \in FotoIds, r \in RaceRates, u \in Users :
        /\ resolving = NoRequest
        /\ voting[s] = NoVote
        /\ \A x \in Sessions : x < s => voting[x] # NoVote
        /\ create_rate_query(s, f, r, u)
        /\ UNCHANGED <<resolving, pending, comments, avg_rating>>

CreateRateCommit ==
    \E s \in Sessions :
        /\ resolving = NoRequest
        /\ voting[s] # NoVote
        /\ FotoExists(voting[s].foto_id) => next_id.rating <= MaxRatings
        /\ create_rate_commit(s)
        /\ AfterFlush(IF FotoExists(voting[s].foto_id)
                      THEN {voting[s].foto_id} ELSE {})
        /\ UNCHANGED <<resolving, pending, comments>>

NextRace ==
    \/ GetTagsQuery
    \/ GetTagsCommit
    \/ CreateFotoCommit
    \/ CreateFotoR
    \/ RemoveFotoR
    \/ CreateRateQuery
    \/ CreateRateCommit

SpecRace == Init /\ [][NextRace]_vars

---------------------------------------------------------------------------
(* SpecFotos: the photo life cycle with several owners.  Every user        *)
(* uploads photos with one title in the tags field, and every user sends   *)
(* update and remove requests for every photo id, also while a request is  *)
(* resolving its titles.                                                   *)

UploadIds == 1 .. MaxUploads

(* routes/fotos.py 225-245 with schemas.py 141-144: the body of an update  *)
(* is a title, a description and a list of titles.                         *)
NewTitles == {"sun"}
NewDescrs == {"sky"}
FotoUpdates == [title : NewTitles, descr : NewDescrs,
                tags : { << >>, <<"dog">> }]

CreateFotoF ==
    /\ resolving = NoRequest
    /\ next_id.foto <= MaxUploads
    /\ \E t \in FotoTitles, d \in FotoDescrs, g \in PlainForms, u \in Users :
           create_foto(t, d, g, u)
    /\ AfterFlush({})
    /\ UNCHANGED <<pending, voting, comments>>

UpdateFotoF ==
    /\ resolving = NoRequest
    /\ \E f \in UploadIds, b \in FotoUpdates, u \in Users : update_foto(f, b, u)
    /\ AfterFlush({})
    /\ UNCHANGED <<pending, voting, comments>>

RemoveFotoF ==
    /\ \E f \in UploadIds, u \in Users : remove_foto(f, u)
    /\ AfterFlush({})
    /\ UNCHANGED <<resolving, pending, voting>>

NextFotos ==
    \/ GetTagsQuery
    \/ GetTagsCommit
    \/ CreateFotoCommit
    \/ UpdateFotoCommit
    \/ CreateFotoF
    \/ UpdateFotoF
    \/ RemoveFotoF

SpecFotos == Init /\ [][NextFotos]_vars

---------------------------------------------------------------------------
(* SpecPairs: the rating engine with every photo operation in between.     *)
(* One user uploads photos with one title in the tags field; every user    *)
(* votes, edits and deletes ratings, and sends update and remove requests  *)
(* for every photo id.  An update carries no title (the photo loses its    *)
(* tags) or one title to resolve.  Every request is taken to its end       *)
(* before the next begins.                                                 *)

PairUpdates == [title : FotoTitles, descr : FotoDescrs,
                tags : { << >>, <<"cat">> }]

CreateFotoP ==
    /\ resolving = NoRequest
    /\ next_id.foto <= MaxFotos
    /\ \E t \in FotoTitles, d \in FotoDescrs, g \in PlainForms :
           create_foto(t, d, g, Uploader)
    /\ AfterFlush({})
    /\ UNCHANGED <<pending, voting, comments>>

UpdateFotoP ==
    /\ resolving = NoRequest
    /\ \E f \in FotoIds, b \in PairUpdates, u \in Users : update_foto(f, b, u)
    /\ AfterFlush({})
    /\ UNCHANGED <<pending, voting, comments>>

NextPairs ==
    \/ GetTagsQuery
    \/ GetTagsCommit
    \/ CreateFotoCommit
    \/ UpdateFotoCommit
    \/ CreateRate
    \/ EditRate
    \/ DeleteRate
    \/ CreateFotoP
    \/ UpdateFotoP
    \/ RemoveFoto

SpecPairs == Init /\ [][NextPairs]_vars

---------------------------------------------------------------------------
(* SpecOwner: every operation that reaches a photo after its upload.  A    *)
(* moderator and a plain user upload, one photo being stored at a time;    *)
(* every user sends update, remove, transformation and QR requests for     *)
(* every photo id; one user votes, edits and deletes the votes, and        *)
(* creates tags; tags are renamed and removed.  A request begins while no  *)
(* other request is in flight.                                             *)

(* One transformation request: rotate by 45 degrees at width 400. *)
RotateBody ==
    [NoBody EXCEPT !.rotate = [use_filter |-> TRUE, width |-> 400, degree |-> 45]]

(* The votes of SpecOwner are cast by one user, who also sends its         *)
(* create_tag requests.                                                    *)
Voter == CHOOSE u \in Users : Role(u) = "Moderator"

(* The users who upload in SpecOwner. *)
Owners == {u \in Users : Role(u) # "Administrator"}

(* An update of SpecOwner carries one title to resolve. *)
OwnerUpdates == [title : NewTitles, descr : NewDescrs, tags : { <<"dog">> }]

(* The title that create_tag and update_tag requests of SpecOwner carry. *)
OwnerTitles == {"dog"}

(* No create_tag request is between its query and its commit. *)
Quiet == \A u \in Users : pending[u] = NoPending

CreateFotoO ==
    /\ resolving = NoRequest
    /\ Quiet
    /\ DOMAIN fotos = {}
    /\ next_id.foto <= MaxFotos
    /\ \E t \in FotoTitles, d \in FotoDescrs, g \in PlainForms, u \in Owners :
           create_foto(t, d, g, u)
    /\ AfterFlush({})
    /\ UNCHANGED <<pending, voting, comments>>

UpdateFotoO ==
    /\ resolving = NoRequest
    /\ Quiet
    /\ \E f \in FotoIds, b \in OwnerUpdates, u \in Users : update_foto(f, b, u)
    /\ AfterFlush({})
    /\ UNCHANGED <<pending, voting, comments>>

RemoveFotoO ==
    /\ resolving = NoRequest
    /\ Quiet
    /\ \E f \in FotoIds, u \in Users : remove_foto(f, u)
    /\ AfterFlush({})
    /\ UNCHANGED <<resolving, pending, voting>>

TransformMetodO ==
    /\ resolving = NoRequest
    /\ Quiet
    /\ \E f \in FotoIds, u \in Users : transform_metod(f, RotateBody, u)
    /\ UNCHANGED <<resolving, pending, voting, comments, avg_rating>>

ShowQrO ==
    /\ resolving = NoRequest
    /\ Quiet
    /\ last.op # "show_qr"
    /\ \E f \in FotoIds, u \in Users : show_qr(f, u)
    /\ UNCHANGED <<resolving, pending, voting, comments, avg_rating>>

CreateRateO ==
    \E f \in FotoIds, r \in RaceRates :
        /\ resolving = NoRequest
        /\ Quiet
        /\ CreateRateOutcome(f, Voter) = "ok" => next_id.rating <= MaxRatings
        /\ create_rate(f, r, Voter)
        /\ AfterFlush(IF CreateRateOutcome(f, Voter) = "ok" THEN {f} ELSE {})
        /\ UNCHANGED <<resolving, pending, voting, comments>>

EditRateO ==
    \E i \in RateIds, r \in Rates \ RaceRates :
        /\ resolving = NoRequest
        /\ Quiet
        /\ edit_rate(i, r, Voter)
        /\ AfterFlush({x.foto_id : x \in {y \in RatingById(i) :
                                              EditPermitted(Voter, y)}})
        /\ UNCHANGED <<resolving, pending, voting, comments>>

DeleteRateO ==
    \E i \in RateIds :
        /\ resolving = NoRequest
        /\ Quiet
        /\ delete_rate(i, Voter)
        /\ AfterFlush({x.foto_id : x \in RatingById(i)})
        /\ UNCHANGED <<resolving, pending, voting, comments>>

CreateTagQueryO ==
    \E t \in OwnerTitles :
        /\ resolving = NoRequest
        /\ Quiet
        /\ create_tag_query(t, Voter)
        /\ UNCHANGED <<resolving, voting, comments, avg_rating>>

CreateTagCommitO ==
    /\ resolving = NoRequest
    /\ pending[Voter] # NoPending
    /\ TitleFree(tags, pending[Voter]) => next_id.tag <= MaxTags
    /\ create_tag_commit(Voter)
    /\ UNCHANGED <<resolving, voting, comments, avg_rating>>

UpdateTagO ==
    /\ resolving = NoRequest
    /\ Quiet
    /\ \E i \in TagIds, t \in OwnerTitles : update_tag(i, t)
    /\ UNCHANGED <<resolving, voting, comments, avg_rating>>

RemoveTagO ==
    /\ resolving = NoRequest
    /\ Quiet
    /\ \E i \in TagIds : remove_tag(i)
    /\ UNCHANGED <<resolving, voting, comments, avg_rating>>

NextOwner ==
    \/ GetTagsQuery
    \/ GetTagsCommit
    \/ CreateFotoCommit
    \/ UpdateFotoCommit
    \/ CreateFotoO
    \/ UpdateFotoO
    \/ RemoveFotoO
    \/ TransformMetodO
    \/ ShowQrO
    \/ CreateRateO
    \/ EditRateO
    \/ DeleteRateO
    \/ CreateTagQueryO
    \/ CreateTagCommitO
    \/ UpdateTagO
    \/ RemoveTagO

SpecOwner == Init /\ [][NextOwner]_vars

---------------------------------------------------------------------------
(* SpecForms: the tag lists that reach the resolver.  The route of         *)
(* create_foto reads the tags form field as a plain list and the body of   *)
(* update_foto is a FotoUpdate, neither of which passes through            *)
(* FotoBase.validate_tags; lists of one, five and six titles are sent,     *)
(* and uploads without the tags field.                                     *)
(* One user uploads, every user sends updates.                             *)

(* schemas.py 132: the largest number of tags FotoBase accepts. *)
MaxTagsPerFoto == 5

SixTitles == <<"cat", "dog", "elk", "fox", "gnu", "hen">>
FiveTitles == SubSeq(SixTitles, 1, MaxTagsPerFoto)

LongForms == {NoForm, CatForm, Form(<< FiveTitles >>), Form(<< SixTitles >>)}
LongUpdates == [title : NewTitles, descr : NewDescrs,
                tags : { <<"dog">>, FiveTitles, SixTitles }]

CreateFotoL ==
    /\ resolving = NoRequest
    /\ next_id.foto <= MaxUploads
    /\ \E t \in FotoTitles, d \in FotoDescrs, g \in LongForms :
           create_foto(t, d, g, Uploader)
    /\ AfterFlush({})
    /\ UNCHANGED <<pending, voting, comments>>

UpdateFotoL ==
    /\ resolving = NoRequest
    /\ \E f \in UploadIds, b \in LongUpdates, u \in Users : update_foto(f, b, u)
    /\ AfterFlush({})
    /\ UNCHANGED <<pending, voting, comments>>

(* The tag ids of SpecForms are bounded by the titles sent. *)
GetTagsCommitL ==
    /\ resolving.missing
    /\ get_tags_commit
    /\ UNCHANGED <<pending, voting, comments, avg_rating>>

NextForms ==
    \/ GetTagsQuery
    \/ GetTagsCommitL
    \/ CreateFotoCommit
    \/ UpdateFotoCommit
    \/ CreateFotoL
    \/ UpdateFotoL

SpecForms == Init /\ [][NextForms]_vars

---------------------------------------------------------------------------
(* SpecCascade: the rows that depend on a photo.  One user uploads photos  *)
(* with tags, users comment and one user votes, and every user sends       *)
(* remove requests; tags are removed, also while an upload is resolving    *)
(* its titles.                                                             *)

(* The write endpoint of comments: a Comment of the user on an existing    *)
(* photo is created; on a missing photo nothing is stored.                 *)
create_comment(foto_id, user) ==
    LET comment == [id |-> next_id.comment, foto_id |-> foto_id, user_id |-> user]
    IN  /\ IF FotoExists(foto_id)
           THEN /\ comments' = comments \cup {comment}
                /\ next_id' = [next_id EXCEPT !.comment = @ + 1]
                /\ last' = Outcome("create_comment", "ok", comment, << >>, NoBody)
           ELSE /\ UNCHANGED <<comments, next_id>>
                /\ last' = Outcome("create_comment", "None", NoneRet, << >>, NoBody)
        /\ UNCHANGED <<fotos, ratings, tags, assets>>

CreateFotoK ==
    /\ resolving = NoRequest
    /\ next_id.foto <= MaxFotos
    /\ \E t \in FotoTitles, d \in FotoDescrs, g \in TagForms :
          /\ create_foto(t, d, g, Uploader)
    /\ AfterFlush({})
    /\ UNCHANGED <<pending, voting, comments>>

CreateCommentK ==
    /\ resolving = NoRequest
    /\ next_id.comment <= MaxComments
    /\ \E f \in FotoIds, u \in Users : create_comment(f, u)
    /\ UNCHANGED <<resolving, pending, voting, avg_rating>>

CreateRateK ==
    \E f \in FotoIds, r \in RaceRates :
        /\ resolving = NoRequest
        /\ CreateRateOutcome(f, Voter) = "ok" => next_id.rating <= MaxRatings
        /\ create_rate(f, r, Voter)
        /\ AfterFlush(IF CreateRateOutcome(f, Voter) = "ok" THEN {f} ELSE {})
        /\ UNCHANGED <<resolving, pending, voting, comments>>

RemoveFotoK ==
    /\ \E f \in FotoIds, u \in Users : remove_foto(f, u)
    /\ AfterFlush({})
    /\ UNCHANGED <<resolving, pending, voting>>

RemoveTagK ==
    /\ \E i \in TagIds : remove_tag(i)
    /\ UNCHANGED <<resolving, voting, comments, avg_rating>>

NextCascade ==
    \/ GetTagsQuery
    \/ GetTagsCommit
    \/ CreateFotoCommit
    \/ CreateFotoK
    \/ CreateCommentK
    \/ CreateRateK
    \/ RemoveFotoK
    \/ RemoveTagK

SpecCascade == Init /\ [][NextCascade]_vars

---------------------------------------------------------------------------
(* Properties of the rating engine, checked under Spec.                    *)

IsOwner(foto_id, user) == FotoExists(foto_id) /\ fotos[foto_id].user_id = user

Store == <<fotos, ratings, tags, assets, next_id>>

(* C1: a create_rate by a user who does not own the photo and who already  *)
(* has a Rating on it (left by an earlier create_rate that succeeded) is   *)
(* rejected with the duplicate-vote error, HTTP 423, whatever rate it      *)
(* carries, and leaves the ratings exactly as they were.                   *)
C1_SecondVoteRejected ==
    [][last'.op = "create_rate" =>
         \A f \in FotoIds, r \in Rates, u \in Users :
           (/\ create_rate(f, r, u)
            /\ ~ IsOwner(f, u)
            /\ RatingsOf(f, u) # {})
           => /\ last'.status = "VOTE_TWICE"
              /\ StatusCode(last'.status) = 423
              /\ ratings' = ratings]_vars

C1_Witness ==
    /\ last.op = "create_rate"
    /\ last.status = "VOTE_TWICE"
    /\ \E r \in ratings : ~ IsOwner(r.foto_id, r.user_id)

(* C2: after any sequence of create_rate, edit_rate, delete_rate and of    *)
(* uploads, updates and removals of photos, each taken to its end before   *)
(* the next begins, there is at most one Rating for each (user, photo)     *)
(* pair.  Checked under SpecPairs, which takes all six operations.         *)
C2_OneRatingPerPair ==
    \A r1, r2 \in ratings :
        (r1.user_id = r2.user_id /\ r1.foto_id = r2.foto_id) => r1 = r2

C2_Witness ==
    /\ Cardinality(ratings) = 2
    /\ last.op = "create_rate"
    /\ last.status = "VOTE_TWICE"
    /\ \A r \in ratings : FotoExists(r.foto_id) /\ fotos[r.foto_id].tags = {}

(* C3: a create_rate by the owner of the photo is rejected with the        *)
(* self-vote error, HTTP 423, and creates no Rating; and no Rating is ever *)
(* held by the owner of the photo it rates.                                *)
C3_NoSelfVote ==
    /\ [](\A r \in ratings : ~ IsOwner(r.foto_id, r.user_id))
    /\ [][last'.op = "create_rate" =>
            \A f \in FotoIds, r \in Rates, u \in Users :
              (create_rate(f, r, u) /\ IsOwner(f, u))
              => /\ last'.status = "OWN_FOTO"
                 /\ StatusCode(last'.status) = 423
                 /\ ratings' = ratings]_vars

C3_Witness ==
    /\ last.op = "create_rate"
    /\ last.status = "OWN_FOTO"
    /\ ratings # {}

(* C4: create_rate answers self-vote if the rater owns the photo;          *)
(* otherwise duplicate-vote if the rater has a Rating with that photo id;  *)
(* otherwise nothing, creating no Rating, if the photo does not exist;     *)
(* otherwise it creates and returns exactly one Rating with the given      *)
(* photo, rater and value.  The first conjunct states the precedence for   *)
(* every combination of the three query results, the second for every      *)
(* create_rate step of the system.                                         *)
C4_CreateRatePrecedence ==
    /\ [](\A is_self, voted, exists \in BOOLEAN :
            CreateRateDecision(is_self, voted, exists) =
                IF is_self THEN "OWN_FOTO"
                ELSE IF voted THEN "VOTE_TWICE"
                ELSE IF ~ exists THEN "None"
                ELSE "ok")
    /\ [][last'.op = "create_rate" =>
         \A f \in FotoIds, r \in Rates, u \in Users :
         create_rate(f, r, u)
         => IF IsOwner(f, u)
            THEN last'.status = "OWN_FOTO" /\ ratings' = ratings
            ELSE IF RatingsOf(f, u) # {}
            THEN last'.status = "VOTE_TWICE" /\ ratings' = ratings
            ELSE IF ~ FotoExists(f)
            THEN last'.status = "None" /\ last'.ret = NoneRet /\ ratings' = ratings
            ELSE /\ last'.status = "ok"
                 /\ last'.ret.foto_id = f /\ last'.ret.user_id = u
                 /\ \A x \in ratings : x.id # last'.ret.id
                 /\ ratings' = ratings \cup
                        {[id |-> last'.ret.id, foto_id |-> f, rate |-> r,
                          user_id |-> u]}]_vars

C4_Witness ==
    /\ last.op = "create_rate"
    /\ last.status = "None"
    /\ next_id.foto > 1
    /\ next_id.rating > 1

(* C5: edit_rate on an existing Rating sets its value to new_rate exactly  *)
(* when the actor is an admin, a moderator or the Rating's rater, and      *)
(* otherwise leaves the value; the Rating's id, photo id and rater id and  *)
(* every other Rating stay as they were.                                   *)
C5_EditRatePermission ==
    [][last'.op = "edit_rate" =>
         \A i \in RateIds, n \in Rates, u \in Users :
         (RatingById(i) # {} /\ last'.ret.id = i /\ edit_rate(i, n, u))
         => \E old \in ratings :
              /\ old.id = i
              /\ ratings' = (ratings \ {old}) \cup
                     {[id |-> old.id, foto_id |-> old.foto_id,
                       user_id |-> old.user_id,
                       rate |-> IF \/ Role(u) = "Administrator"
                                   \/ Role(u) = "Moderator"
                                   \/ old.user_id = u
                                THEN n ELSE old.rate]}]_vars

C5_Witness ==
    /\ last.op = "edit_rate"
    /\ last.status = "ok"
    /\ \E r \in ratings : r.id = last.ret.id /\ Role(r.user_id) = "User"
    /\ Cardinality(ratings) = 2

(* C6: edit_rate on a rating id that does not exist raises no error for    *)
(* any actor role: it returns nothing and leaves every Rating unchanged.   *)
C6_EditMissingRaisesNothing ==
    [][last'.op = "edit_rate" =>
         \A i \in RateIds, n \in Rates, u \in Users :
         (RatingById(i) = {} /\ edit_rate(i, n, u))
         => /\ last'.status = "None"
            /\ ratings' = ratings]_vars

(* C7: delete_rate removes the Rating with the given id if there is one    *)
(* and leaves every other Rating as it was; on an id that is already       *)
(* deleted or was never issued it raises nothing, returns nothing and      *)
(* changes no state.                                                       *)
C7_DeleteRateIdempotent ==
    [][last'.op = "delete_rate" =>
         \A i \in RateIds, u \in Users :
         delete_rate(i, u)
         => /\ ratings' = {r \in ratings : r.id # i}
            /\ UNCHANGED <<fotos, tags, assets, next_id>>
            /\ IF RatingById(i) = {}
               THEN last'.status = "None" /\ last'.ret = NoneRet /\ Store' = Store
               ELSE last'.status = "ok" /\ last'.ret.id = i]_vars

C7_Witness ==
    /\ last.op = "delete_rate"
    /\ last.status = "None"
    /\ next_id.rating = 3
    /\ Cardinality(ratings) = 1

(* C8: right after delete_rate has deleted a user's Rating on a photo the  *)
(* user does not own, a create_rate by that user on that photo succeeds    *)
(* and creates a new Rating for the pair.                                  *)
C8_VoteAgainAfterDelete ==
    [][(last.op = "delete_rate" /\ last.status = "ok"
                                  /\ last'.op = "create_rate") =>
         \A r \in Rates :
         create_rate(last.ret.foto_id, r, last.ret.user_id)
         => /\ last'.status = "ok"
            /\ \E x \in ratings' \ ratings :
                 /\ x.foto_id = last.ret.foto_id
                 /\ x.user_id = last.ret.user_id
                 /\ x.rate = r]_vars

C8_Witness ==
    /\ last.op = "create_rate"
    /\ last.status = "ok"
    /\ last.ret.id = 2
    /\ Cardinality(ratings) = 1

---------------------------------------------------------------------------
(* Properties of the transformation compiler, checked under SpecCompile.   *)

AllDisabled(body) ==
    /\ ~ body.circle.use_filter
    /\ ~ body.effect.use_filter
    /\ ~ body.resize.use_filter
    /\ ~ body.text.use_filter
    /\ ~ body.rotate.use_filter

OnlyRotate(body) ==
    /\ ~ body.circle.use_filter
    /\ ~ body.effect.use_filter
    /\ ~ body.resize.use_filter
    /\ ~ body.text.use_filter
    /\ body.rotate.use_filter

(* C9: transform_metod on an owned photo with every group's enable flag    *)
(* false compiles an empty operation list, calls the image service not at  *)
(* all, leaves the photo (its transform_url included) and everything else  *)
(* unchanged, and returns the photo.                                       *)
C9_AllDisabledChangesNothing ==
    [][(last'.op = "transform_metod" /\ AllDisabled(last'.body)) =>
         \A f \in FotoIds, u \in Users :
         (OwnedFoto(f, u) /\ transform_metod(f, last'.body, u))
         => /\ Compile(last'.body) = << >>
            /\ last'.calls = << >>
            /\ Store' = Store
            /\ last'.status = "ok"
            /\ last'.ret = FotoRet(f, fotos[f])]_vars

C9_Witness ==
    /\ last.op = "transform_metod"
    /\ last.status = "ok"
    /\ AllDisabled(last.body)
    /\ last.body.effect.cartoonify
    /\ last.body.resize.crop

(* C10: a request with only the rotate group enabled, with a non-zero      *)
(* width w and a non-zero degree d, compiles to exactly the three          *)
(* operations scale-to-width(w), vertical-flip, rotate(d), in this order.  *)
C10_RotateOnlyThreeOps ==
    (/\ last.op = "transform_metod"
     /\ last.status = "ok"
     /\ OnlyRotate(last.body)
     /\ TruthyNum(last.body.rotate.width)
     /\ TruthyNum(last.body.rotate.degree))
    => (/\ Len(last.calls) = 1
        /\ last.calls[1].fn = "build_url"
        /\ last.calls[1].transformation =
              << [width |-> ToString(last.body.rotate.width), crop |-> "scale"],
                 [angle |-> "vflip"],
                 [angle |-> ToString(last.body.rotate.degree)] >>
        /\ last.calls[1].transformation = Compile(last.body))

C10_Witness ==
    /\ last.op = "transform_metod"
    /\ last.status = "ok"
    /\ OnlyRotate(last.body)
    /\ last.body.rotate.width = 400
    /\ last.body.rotate.degree = 45
    /\ Len(last.calls) = 1
    /\ Len(last.calls[1].transformation) = 3

(* The operation list the last request sent to the image service. *)
Sent == IF last.calls = << >> THEN << >> ELSE last.calls[1].transformation

OnlyResize(body) ==
    /\ ~ body.circle.use_filter
    /\ ~ body.effect.use_filter
    /\ body.resize.use_filter
    /\ ~ body.text.use_filter
    /\ ~ body.rotate.use_filter

(* C11: a request on an owned photo with only the resize group enabled,    *)
(* height and width present, and crop and fill both set or both unset,     *)
(* compiles an empty operation list: no image-service call is made and the *)
(* photo's transform_url stays as it was.                                  *)
C11_ResizeBothOrNeitherSkipped ==
    [][(/\ last'.op = "transform_metod"
        /\ last'.status = "ok"
        /\ OnlyResize(last'.body)
        /\ TruthyNum(last'.body.resize.height)
        /\ TruthyNum(last'.body.resize.width)
        /\ last'.body.resize.crop = last'.body.resize.fill)
       => /\ Compile(last'.body) = << >>
          /\ last'.calls = << >>
          /\ fotos' = fotos]_vars

(* C12: when the compiled list of a request on an owned photo is not       *)
(* empty, transform_metod makes exactly one build_url call, keyed by the   *)
(* photo's public_id and carrying the compiled list, stores the URL built  *)
(* as the photo's transform_url and leaves the photo's image_url,          *)
(* public_id, owner, title, description and tags, and everything else,     *)
(* unchanged.                                                              *)
C12_OneBuildUrlCallAndFrame ==
    [][(last'.op = "transform_metod" /\ Compile(last'.body) # << >>) =>
         \A f \in FotoIds, u \in Users :
           (OwnedFoto(f, u) /\ transform_metod(f, last'.body, u))
           => /\ last'.calls = << [fn |-> "build_url",
                                   public_id |-> fotos[f].public_id,
                                   transformation |-> Compile(last'.body)] >>
              /\ fotos'[f].transform_url =
                     BuildUrl(fotos[f].public_id, Compile(last'.body))
              /\ fotos'[f].image_url = fotos[f].image_url
              /\ fotos'[f].public_id = fotos[f].public_id
              /\ fotos'[f].user_id = fotos[f].user_id
              /\ fotos'[f].title = fotos[f].title
              /\ fotos'[f].descr = fotos[f].descr
              /\ fotos'[f].tags = fotos[f].tags
              /\ DOMAIN fotos' = DOMAIN fotos
              /\ \A g \in DOMAIN fotos \ {f} : fotos'[g] = fotos[g]
              /\ UNCHANGED <<ratings, tags, assets, next_id>>]_vars

C12_Witness ==
    /\ last.op = "transform_metod"
    /\ last.status = "ok"
    /\ Len(last.calls) = 1
    /\ Len(Sent) = 9
    /\ \E f \in DOMAIN fotos :
          /\ fotos[f].transform_url = BuildUrl(fotos[f].public_id, Sent)
          /\ fotos[f].transform_url # fotos[f].image_url

(* C13: transform_metod and show_qr on a photo id that does not exist, or  *)
(* that belongs to another user, whatever the requester's role, return     *)
(* nothing, call the image service not at all and change no state.         *)
C13_NotOwnedReturnsNothing ==
    [][(last'.op \in {"transform_metod", "show_qr"}) =>
         \A f \in FotoIds, u \in Users :
           (/\ ~ (FotoExists(f) /\ fotos[f].user_id = u)
            /\ \/ last'.op = "transform_metod" /\ transform_metod(f, last'.body, u)
               \/ last'.op = "show_qr" /\ show_qr(f, u))
           => /\ last'.status = "None"
              /\ last'.ret = NoneRet
              /\ last'.calls = << >>
              /\ Store' = Store]_vars

C13_Witness ==
    /\ last.op = "transform_metod"
    /\ last.status = "None"
    /\ fotos # << >>
    /\ Compile(last.body) # << >>

(* C14: show_qr on an owned photo answers nothing when the photo's         *)
(* transform_url is empty and a non-empty encoded text when it is not; the *)
(* answer is determined by the photo's current transform_url, and no photo *)
(* or other entity is changed.  The first conjunct states the two cases    *)
(* for the answer computed from an empty URL and from every stored URL,    *)
(* the second for every show_qr step of the system.                        *)
C14_ShowQrPureOfTransformUrl ==
    /\ [](/\ \A f \in DOMAIN fotos :
               ShowQrResult([image_url |-> fotos[f].image_url,
                             transform_url |-> NoUrl]) = << >>
          /\ \A f \in DOMAIN fotos :
               fotos[f].transform_url # NoUrl
                   => Len(ShowQrResult(fotos[f])) > 0)
    /\ [][last'.op = "show_qr" =>
            \A f \in FotoIds, u \in Users :
              (/\ FotoExists(f) /\ fotos[f].user_id = u
               /\ show_qr(f, u))
              => /\ Store' = Store
                 /\ last'.calls = << >>
                 /\ IF fotos[f].transform_url = NoUrl
                    THEN last'.status = "None" /\ last'.ret = NoneRet
                    ELSE /\ last'.status = "ok"
                         /\ Len(last'.ret.encoded_img) > 0
                         /\ last'.ret.encoded_img = QrEncode(fotos[f].transform_url)
                         /\ \A g \in DOMAIN fotos :
                              fotos[g].transform_url = fotos[f].transform_url
                                  => ShowQrResult(fotos[g]) = last'.ret.encoded_img]_vars

C14_Witness ==
    /\ last.op = "show_qr"
    /\ last.status = "ok"
    /\ \E f \in DOMAIN fotos :
          /\ fotos[f].transform_url # fotos[f].image_url
          /\ last.ret.encoded_img = QrEncode(fotos[f].transform_url)

(* The operations of a list that carry the field key. *)
OpsWith(ops, key) == SelectSeq(ops, LAMBDA o : key \in DOMAIN o)

(* C17: with the effect group enabled, the list sent holds exactly one     *)
(* effect operation if at least one sub-flag is set and none if none is    *)
(* set, and the effect is the first set one of cartoonify, blur,           *)
(* art_zorro, art_audrey, for every combination of the four sub-flags.     *)
C17_EffectPriority ==
    (/\ last.op = "transform_metod"
     /\ last.status = "ok"
     /\ last.body.effect.use_filter)
    => LET e == last.body.effect
           effects == OpsWith(Sent, "effect")
       IN  /\ Len(effects) =
                 IF e.cartoonify \/ e.blur \/ e.art_zorro \/ e.art_audrey
                 THEN 1 ELSE 0
           /\ e.cartoonify => effects = << [effect |-> "cartoonify"] >>
           /\ (~ e.cartoonify /\ e.blur) => effects = << [effect |-> "blur:300"] >>
           /\ (~ e.cartoonify /\ ~ e.blur /\ e.art_zorro)
                 => effects = << [effect |-> "art:zorro"] >>
           /\ (~ e.cartoonify /\ ~ e.blur /\ ~ e.art_zorro /\ e.art_audrey)
                 => effects = << [effect |-> "art:audrey"] >>

C17_Witness ==
    /\ last.op = "transform_metod"
    /\ last.status = "ok"
    /\ last.body.effect.use_filter
    /\ last.body.effect.art_audrey /\ last.body.effect.art_zorro
    /\ last.body.effect.blur /\ ~ last.body.effect.cartoonify
    /\ OpsWith(Sent, "effect") = << [effect |-> "blur:300"] >>

(* The resize operations of a list: the ones with automatic gravity. *)
ResizeOpsIn(ops) ==
    SelectSeq(OpsWith(ops, "gravity"), LAMBDA o : o.gravity = "auto")

(* C18: the list sent holds a resize operation only if the resize group's  *)
(* height and width are both present: with resize enabled, exactly one     *)
(* crop mode set, a height and no width, no resize operation is sent.      *)
C18_ResizeNeedsHeightAndWidth ==
    (/\ last.op = "transform_metod"
     /\ last.status = "ok"
     /\ ResizeOpsIn(Sent) # << >>)
    => (TruthyNum(last.body.resize.height) /\ TruthyNum(last.body.resize.width))

(* A request with one group of body and every other group switched off. *)
OnlyGroup(body, group) ==
    [g \in DOMAIN NoBody |-> IF g = group THEN body[g] ELSE NoBody[g]]

(* C19: the list sent is the concatenation, in the order circle-crop,      *)
(* effect, resize, text-overlay, rotate, of the groups' operations, 2, 1,  *)
(* 1, 2 and 3 of them for a group that qualifies and none otherwise; a     *)
(* group contributes what it contributes in a request with only that       *)
(* group; and a group that is enabled while a parameter it requires is     *)
(* absent contributes nothing.                                             *)
C19_GroupsConcatenatedInOrder ==
    (last.op = "transform_metod" /\ last.status = "ok")
    => LET b == last.body
       IN  /\ Sent = CircleOps(b) \o EffectOps(b) \o ResizeOps(b)
                                  \o TextOps(b) \o RotateOps(b)
           /\ Len(CircleOps(b)) \in {0, 2}
           /\ Len(EffectOps(b)) \in {0, 1}
           /\ Len(ResizeOps(b)) \in {0, 1}
           /\ Len(TextOps(b)) \in {0, 2}
           /\ Len(RotateOps(b)) \in {0, 3}
           /\ CircleOps(b) = Compile(OnlyGroup(b, "circle"))
           /\ EffectOps(b) = Compile(OnlyGroup(b, "effect"))
           /\ ResizeOps(b) = Compile(OnlyGroup(b, "resize"))
           /\ TextOps(b) = Compile(OnlyGroup(b, "text"))
           /\ RotateOps(b) = Compile(OnlyGroup(b, "rotate"))
           /\ (b.circle.use_filter /\ (b.circle.height = Absent \/ b.circle.width = Absent))
                 => CircleOps(b) = << >>
           /\ (b.resize.use_filter /\ (b.resize.height = Absent \/ b.resize.width = Absent))
                 => ResizeOps(b) = << >>
           /\ (b.text.use_filter /\ (b.text.font_size = Absent \/ b.text.text = ""))
                 => TextOps(b) = << >>
           /\ (b.rotate.use_filter /\ (b.rotate.width = Absent \/ b.rotate.degree = Absent))
                 => RotateOps(b) = << >>

---------------------------------------------------------------------------
(* Properties of the photo life cycle, checked under Spec.                 *)

(* C16: once remove_foto by the photo's owner has succeeded, the photo is  *)
(* gone and get_foto_by_id for its id answers nothing to every user; and a *)
(* remove_foto on an id whose photo is gone answers nothing (not-found),   *)
(* does not call the image service's destroy and changes no state.         *)
C16_RemovedFotoStaysGone ==
    [][last'.op = "remove_foto" =>
         \A f \in FotoIds, u \in Users :
           remove_foto(f, u)
           => /\ (IsOwner(f, u) /\ last'.status = "ok")
                   => /\ ~ FotoExists(f)'
                      /\ \A v \in Users : get_foto_by_id(f, v)' = NoneRet
              /\ ~ FotoExists(f)
                   => /\ last'.status = "None"
                      /\ last'.ret = NoneRet
                      /\ last'.calls = << >>
                      /\ Store' = Store]_vars

C16_Witness ==
    /\ last.op = "remove_foto"
    /\ last.status = "None"
    /\ next_id.foto > 1
    /\ ~ FotoExists(next_id.foto - 1)
    /\ \A p \in PublicIds : assets[p] = 0

---------------------------------------------------------------------------
(* Properties of the tags, checked under SpecTags.                         *)

Titled(tagset, title) == {x \in tagset : x.title = title}

C20_UniqueTitles ==
    \A x, y \in tags : x.title = y.title => x = y

C20_Witness ==
    /\ last.op = "create_tag"
    /\ last.status = "IntegrityError"
    /\ Cardinality(tags) = 2
    /\ \E u \in Users : pending[u] # NoPending /\ Titled(tags, pending[u]) # {}

---------------------------------------------------------------------------
(* Permissions and frames of the rating and photo operations.              *)

(* C26: delete_rate removes a Rating only when the actor is its rater or   *)
(* an administrator; called by anyone else on an existing Rating, the      *)
(* Rating still exists afterwards.                                         *)
C26_DeleteRateNeedsRaterOrAdmin ==
    [][last'.op = "delete_rate" =>
         \A i \in RateIds, u \in Users :
         (/\ RatingById(i) # {}
          /\ Role(u) # "Administrator"
          /\ \A r \in RatingById(i) : r.user_id # u
          /\ delete_rate(i, u))
         => RatingById(i)' = RatingById(i)]_vars

(* C28: after any sequence of create_rate, edit_rate and delete_rate the   *)
(* avg_rating read for a photo is the arithmetic mean of the rates of the  *)
(* Ratings that exist for it (their sum divided by their count), and it is *)
(* empty when there are none.                                              *)
C28_AvgRatingIsMean ==
    \A f \in DOMAIN fotos :
        LET rs == {r \in ratings : r.foto_id = f}
        IN  /\ f \in DOMAIN avg_rating
            /\ IF rs = {}
               THEN avg_rating[f] = NoAvg
               ELSE /\ avg_rating[f].den > 0
                    /\ avg_rating[f].num * Cardinality(rs)
                         = SumRates(rs) * avg_rating[f].den

C28_Witness ==
    /\ last.op = "edit_rate"
    /\ last.status = "ok"
    /\ \E f \in DOMAIN fotos :
          /\ {r.rate : r \in {x \in ratings : x.foto_id = f}} = {4, 5}
          /\ avg_rating[f] = [num |-> 9, den |-> 2]

---------------------------------------------------------------------------
(* Properties of interleaved requests, checked under SpecRace.             *)

(* C21: when two create_rate requests of the same user for the same photo  *)
(* of another user have both run the existing-vote check before either     *)
(* inserts, both succeed and two Ratings exist for the pair: the commit of *)
(* a vote that passed its check inserts a Rating even when a Rating of the *)
(* same user on the same photo has been inserted since.                    *)
C21_RacingVotesBothInserted ==
    [][last'.op = "create_rate" =>
         \A s \in Sessions :
         (/\ voting[s] # NoVote
          /\ FotoExists(voting[s].foto_id)
          /\ create_rate_commit(s))
         => /\ last'.status = "ok"
            /\ \E x \in ratings' \ ratings :
                  /\ x.foto_id = voting[s].foto_id
                  /\ x.user_id = voting[s].user_id
                  /\ x.rate = voting[s].rate
            /\ ratings \subseteq ratings']_vars

C21_Witness ==
    /\ last.op = "create_rate"
    /\ last.status = "ok"
    /\ \A s \in Sessions : voting[s] = NoVote
    /\ \E x, y \in ratings :
          /\ x.id # y.id
          /\ x.foto_id = y.foto_id
          /\ x.user_id = y.user_id
          /\ FotoExists(x.foto_id)
          /\ fotos[x.foto_id].user_id # x.user_id

---------------------------------------------------------------------------
(* Properties of the photo life cycle, checked under SpecFotos.            *)

(* C22: no two existing photos share a public_id: every photo created by   *)
(* create_foto, by the same or by different users, gets a public_id that   *)
(* no other existing photo has.                                            *)
C22_DistinctPublicIds ==
    \A f, g \in DOMAIN fotos :
        fotos[f].public_id = fotos[g].public_id => f = g

(* C23: the public_id of every existing photo addresses an asset that      *)
(* holds the file uploaded for that photo: no create_foto of another photo *)
(* overwrites it and no remove_foto of another photo destroys it.          *)
C23_AssetHoldsOwnFile ==
    \A f \in DOMAIN fotos : assets[fotos[f].public_id] = f

(* C25: update_foto and remove_foto modify or delete a photo only for its  *)
(* owner or an administrator: called by any other actor, a moderator       *)
(* included, on an existing photo they leave its title, description, tags  *)
(* and existence as they were, create no Tag, make no destroy call to the  *)
(* image service and raise no error.                                       *)
C25_OnlyOwnerOrAdminChangesFoto ==
    [][/\ last'.op = "update_foto" =>
            \A f \in UploadIds, b \in FotoUpdates, u \in Users :
            (/\ FotoExists(f)
             /\ Role(u) # "Administrator"
             /\ fotos[f].user_id # u
             /\ update_foto(f, b, u))
            => /\ fotos' = fotos
               /\ tags' = tags
               /\ assets' = assets
               /\ resolving' = resolving
               /\ last'.calls = << >>
               /\ last'.status = "ok"
       /\ last'.op = "remove_foto" =>
            \A f \in UploadIds, u \in Users :
            (/\ FotoExists(f)
             /\ Role(u) # "Administrator"
             /\ fotos[f].user_id # u
             /\ remove_foto(f, u))
            => /\ fotos' = fotos
               /\ tags' = tags
               /\ assets' = assets
               /\ last'.calls = << >>
               /\ last'.status = "ok"]_vars

C25_Witness ==
    /\ last.op = "remove_foto"
    /\ last.status = "ok"
    /\ last.calls = << >>
    /\ FotoExists(last.ret.id)
    /\ fotos[last.ret.id].title \in FotoTitles
    /\ Role(fotos[last.ret.id].user_id) = "User"
    /\ assets[fotos[last.ret.id].public_id] = last.ret.id

(* C30: a permitted update_foto replaces: afterwards the photo's title and *)
(* description are the request's, its tags are exactly the Tags resolved   *)
(* from the request's titles (none when the request has no tags), and its  *)
(* id, image_url, transform_url and public_id are unchanged.  The first    *)
(* conjunct is the request without titles, which is one transaction; the   *)
(* second is the end of a request whose titles went through get_tags,      *)
(* which replaces whenever it returns and fails only when the photo was    *)
(* removed while the titles were being resolved.                           *)
C30_UpdateReplaces ==
    [][last'.op = "update_foto" =>
         /\ \A f \in UploadIds, b \in FotoUpdates, u \in Users :
              (/\ b.tags = << >>
               /\ FotoExists(f)
               /\ (Role(u) = "Administrator" \/ fotos[f].user_id = u)
               /\ update_foto(f, b, u))
              => /\ DOMAIN fotos' = DOMAIN fotos
                 /\ fotos'[f].title = b.title
                 /\ fotos'[f].descr = b.descr
                 /\ fotos'[f].tags = {}
                 /\ tags' = tags
                 /\ fotos'[f].image_url = fotos[f].image_url
                 /\ fotos'[f].transform_url = fotos[f].transform_url
                 /\ fotos'[f].public_id = fotos[f].public_id
                 /\ last'.ret.id = f
                 /\ \A g \in DOMAIN fotos \ {f} : fotos'[g] = fotos[g]
         /\ (/\ resolving.op = "update_foto"
             /\ Todo(resolving) = << >>
             /\ update_foto_commit)
            => LET f == resolving.foto_id
               IN  IF last'.status = "ok"
                   THEN /\ DOMAIN fotos' = DOMAIN fotos
                        /\ fotos'[f].title = resolving.title
                        /\ fotos'[f].descr = resolving.descr
                        /\ fotos'[f].tags =
                              {x.id : x \in {y \in tags' :
                                               y.title \in Range(resolving.titles)}}
                        /\ \A i \in DOMAIN resolving.titles :
                              \E x \in tags' : x.title = resolving.titles[i]
                        /\ fotos'[f].image_url = fotos[f].image_url
                        /\ fotos'[f].transform_url = fotos[f].transform_url
                        /\ fotos'[f].public_id = fotos[f].public_id
                        /\ last'.ret.id = f
                        /\ \A g \in DOMAIN fotos \ {f} : fotos'[g] = fotos[g]
                   ELSE fotos' = fotos /\ ~ FotoExists(f)]_vars

C30_Witness ==
    /\ last.op = "update_foto"
    /\ last.status = "ok"
    /\ \E f \in DOMAIN fotos :
          /\ last.ret.id = f
          /\ fotos[f].title \in NewTitles
          /\ fotos[f].descr \in NewDescrs
          /\ fotos[f].tags # {}
          /\ \A i \in fotos[f].tags : \E x \in tags : x.id = i /\ x.title = "dog"
          /\ \E x \in tags : x.title = "cat" /\ x.id \notin fotos[f].tags

---------------------------------------------------------------------------
(* Properties of the tag lists, checked under SpecForms.                   *)

(* C29: every call that create_foto or update_foto makes to the tag        *)
(* resolver passes at most 5 titles, so no photo has more than 5 tags.     *)
C29_AtMostFiveTags ==
    [][/\ \A t \in FotoTitles, d \in FotoDescrs, g \in LongForms :
            (resolving = NoRequest /\ create_foto(t, d, g, Uploader))
            => Len(resolving'.titles) <= MaxTagsPerFoto
       /\ \A f \in UploadIds, b \in LongUpdates, u \in Users :
            (resolving = NoRequest /\ update_foto(f, b, u))
            => Len(resolving'.titles) <= MaxTagsPerFoto
       /\ \A f \in DOMAIN fotos' :
             Cardinality(fotos'[f].tags) <= MaxTagsPerFoto]_vars

---------------------------------------------------------------------------
(* Properties of the operations on an uploaded photo, checked under        *)
(* SpecOwner.                                                              *)

(* C24: the owner id of a photo is set at creation to the uploader and is  *)
(* never changed afterwards: not by update_foto (by the owner or by an     *)
(* administrator), not by transform_metod or show_qr, and not by any       *)
(* rating or tag operation.                                                *)
C24_OwnerNeverChanges ==
    [][/\ \A f \in DOMAIN fotos :
             f \in DOMAIN fotos' => fotos'[f].user_id = fotos[f].user_id
       /\ \A t \in FotoTitles, d \in FotoDescrs, g \in PlainForms, u \in Users :
             (/\ resolving = NoRequest
              /\ resolving'.op = "create_foto"
              /\ g.sent
              /\ create_foto(t, d, g, u))
             => resolving'.user = u
       /\ (/\ resolving.op = "create_foto"
           /\ Todo(resolving) = << >>
           /\ last'.status = "ok"
           /\ create_foto_commit)
          => /\ DOMAIN fotos' = DOMAIN fotos \cup {next_id.foto}
             /\ fotos'[next_id.foto].user_id = resolving.user]_vars

C24_Witness ==
    /\ last.op = "update_foto"
    /\ last.status = "ok"
    /\ \E f \in DOMAIN fotos :
          /\ Role(fotos[f].user_id) = "User"
          /\ fotos[f].title \in NewTitles
          /\ fotos[f].tags # {}
          /\ fotos[f].transform_url # fotos[f].image_url
          /\ \E r \in ratings : r.foto_id = f /\ r.rate \notin RaceRates
          /\ \E t \in tags : t.user_id = Voter /\ t.id \in fotos[f].tags

---------------------------------------------------------------------------
(* Properties of dependent rows, checked under SpecCascade.                *)

(* C27: every Rating and every Comment refers to an existing photo and     *)
(* every photo-tag association to an existing photo and an existing tag:   *)
(* a successful remove_foto removes the Ratings, Comments and tag          *)
(* associations of the photo, and remove_tag removes the associations of   *)
(* the tag.                                                                *)
C27_NoDanglingRows ==
    [][/\ \A r \in ratings' : r.foto_id \in DOMAIN fotos'
       /\ \A c \in comments' : c.foto_id \in DOMAIN fotos'
       /\ \A f \in DOMAIN fotos' :
             \A i \in fotos'[f].tags : \E t \in tags' : t.id = i
       /\ \A f \in DOMAIN fotos \ DOMAIN fotos' :
             /\ \A r \in ratings' : r.foto_id # f
             /\ \A c \in comments' : c.id \notin {x.id : x \in {y \in comments :
                                                                y.foto_id = f}}]_vars

====
